---- MODULE Spec2Model ----
(***************************************************************************)
(* ffhuman: a command compiler that turns a media-processing request into  *)
(* an ordered sequence of external process invocations (Step) and an       *)
(* execution engine (CliRunner) that runs them one at a time.              *)
(*                                                                         *)
(* Spec      : a command handler compiles its request into steps and       *)
(*             feeds them to CliRunner::run; the spawned processes, their  *)
(*             diagnostic stream and their exit status are the environment.*)
(* SpecGraph : the filter-graph recipes (montage, collage, tile,           *)
(*             sync-cameras, split-screen, transition) applied to bounded  *)
(*             inputs.                                                     *)
(***************************************************************************)
EXTENDS Integers, Sequences, FiniteSets, TLC

VARIABLES
    config,      \* AppConfig / CliRunner flags: dry_run, explain, overwrite
    request,     \* the Intent being handled: [op, n]
    pc,          \* position of the handler: start, loop, reading, status, done
    steps,       \* the compiled Vec<Step>
    idx,         \* 1-based position of the handler's `for step in steps`
    result,      \* what the handler returned: none, ok, err, panic
    error,       \* the anyhow error carried by an err result
    child,       \* per step: none, running, exited (the spawned process)
    spawns,      \* per step: how many times a process was spawned for it
    exitOf,      \* per step: the exit status its process ends with
    runResult,   \* per step: what Runner::run returned: none, ok, err
    spawnOrder,  \* step indexes in the order they were spawned
    printed,     \* the last "Running:" line written by run
    since,       \* last_update.elapsed(), saturated at update_interval (ms)
    linesRead,   \* stderr items consumed from the current child
    lastLine,    \* the last stderr item read
    lastShown,   \* what run_with_progress displayed for lastLine
    files,       \* paths created: outputs of processes that exited with success,
                 \* and what the handler itself created
    helpers,     \* processes the handler spawned outside run (tool checks, prober)
    graphReq,    \* SpecGraph: the recipe input
    graphOut,    \* SpecGraph: what the recipe returned
    recipeReq,   \* SpecRecipes: the recipe input
    recipeOut,   \* SpecRecipes: what the recipe returned
    valueReq,    \* SpecValues: the text handed to a value parser
    valueOut,    \* SpecValues: what the parser and the formatter returned
    globbed,     \* SpecBatch: the entries glob(pattern) yields, in its order
    batchFiles,  \* SpecBatch: files, the entries kept by the two filters
    batchIdx,    \* SpecBatch: position of the loop over files
    attempted,   \* SpecBatch: the calls of app.execute so far, with their results
    successful,  \* SpecBatch: counter of Ok results
    failed,      \* SpecBatch: counter of Err results
    batchPc,     \* SpecBatch: where handle_batch is
    batchResult  \* SpecBatch: what handle_batch returned

vars == <<config, request, pc, steps, idx, result, error, child, spawns,
          exitOf, runResult, spawnOrder, printed, since, linesRead, lastLine,
          lastShown, files, helpers, graphReq, graphOut, recipeReq, recipeOut,
          valueReq, valueOut, globbed, batchFiles, batchIdx, attempted,
          successful, failed, batchPc, batchResult>>

engineVars == <<config, request, pc, steps, idx, result, error, child, spawns,
                exitOf, runResult, spawnOrder, printed, since, linesRead,
                lastLine, lastShown, files, helpers>>

graphVars == <<graphReq, graphOut>>

recipeVars == <<recipeReq, recipeOut>>

valueVars == <<valueReq, valueOut>>

batchVars == <<globbed, batchFiles, batchIdx, attempted, successful, failed,
               batchPc, batchResult>>

auxVars == <<valueVars, batchVars>>

----------------------------------------------------------------------------
(* Bounds *)

MaxParts  == 3      \* largest N of a split-into-N-parts request
MaxLines  == 2      \* stderr items one child emits before closing the stream
MaxVideos == 4      \* largest number of input videos of a grid request
MaxDim    == 2      \* largest cols / rows of a MontageLayout
MaxTicks  == 2      \* clock ticks that may pass while blocked on one read
ProbedSeconds == 12 \* the duration the prober reports for the input
FadeSeconds == 2    \* the shorter fade duration of a fade request
MaxDigits == 3      \* longest group of digits in a time text
MaxFiles == 3       \* most entries a batch pattern matches
MaxFactor == 9      \* largest numerator / denominator of a speed factor
MaxTargetSteps == 40    \* compression targets go from 0 to MaxTargetSteps steps
ByteStep == 31250       \* one step of the target size, bytes (250 kilobits)

(* Program constants *)

UpdateInterval == 200   \* update_interval, milliseconds
CellWidth      == 320   \* cell_width
TimeGroups == 3       \* Time::parse: the pattern has three groups
MinProbedMillis == 10   \* dur.max(0.01), in milliseconds
Million        == 1000000   \* the six decimals of "{:.6}"
MinVideoBps    == 50000     \* .max(50_000.0)
MinAudioBps    == 96000     \* .clamp(96_000.0, ...)
MaxAudioBps    == 160000    \* .clamp(..., 160_000.0)

TickMs == UpdateInterval \div 2   \* granularity of the wall clock seen between reads

Min(a, b) == IF a < b THEN a ELSE b

----------------------------------------------------------------------------
(* Step: a program name and an argument vector *)

Step(program, args) == [program |-> program, args |-> args]

OverwriteFlag(overwrite) == IF overwrite THEN "-y" ELSE "-n"

(* {:03} formatting of a small number *)
Pad3(n) == IF n < 10 THEN "00" \o ToString(n)
           ELSE IF n < 100 THEN "0" \o ToString(n) ELSE ToString(n)

(* get_video_codec: webm/mkv -> mp4 must re-encode, everything else copies *)
get_video_codec(input_ext, output_ext) ==
    IF input_ext \in {"webm", "mkv"} /\ output_ext = "mp4" THEN "libx264" ELSE "copy"

(* get_audio_codec *)
get_audio_codec(input_ext, output_ext) ==
    IF input_ext \in {"webm", "wmv", "mkv"} /\ output_ext = "mp4" THEN "aac"
    ELSE IF input_ext \in {"mp4", "avi", "mov"} /\ output_ext = "webm" THEN "libopus"
    ELSE "copy"

InputPath    == "in.mp4"
Video1 == "a.mp4"
Video2 == "b.mp4"
InputExt     == "mp4"

(* Path::extension, lower-cased, of the paths that occur as inputs *)
ExtOf(path) ==
    CASE path \in {"in.mp4", "a.mp4", "b.mp4"} -> "mp4"
      [] path \in {"in.webm", "a.webm"} -> "webm"
      [] path = "in.mkv" -> "mkv"
      [] path = "in.wmv" -> "wmv"
      [] OTHER -> ""
PalettePath  == "palette.png"
GifFps       == 15      \* handle_convert: let fps = 15
GifWidth     == 480     \* handle_convert: let width = 480
ProbedMillis == ProbedSeconds * 1000

(* gif_steps: the quality preset picks the frame rate and the width *)
gif_size(fps, width, quality) ==
    CASE quality = <<"low">>   -> [fps |-> 10, width |-> 320]
      [] quality = <<"high">>  -> [fps |-> 20, width |-> 640]
      [] quality = <<"ultra">> -> [fps |-> 30, width |-> 800]
      [] OTHER                 -> [fps |-> fps, width |-> width]

gif_scale(size) ==
    "fps=" \o ToString(size.fps) \o ",scale=" \o ToString(size.width)
        \o ":-1:flags=lanczos"

palettegen_filter(size) == gif_scale(size) \o ",palettegen"
paletteuse_filter(size) == gif_scale(size) \o "[x];[x][1:v]paletteuse=dither=bayer"

(* gif_steps: palette generation, then palette application *)
gif_steps_palette_not_shared(input, output, palette_path, fps, width, quality) ==
    LET size == gif_size(fps, width, quality) IN
    << Step("ffmpeg", <<"-y", "-i", input, "-vf", palettegen_filter(size),
                        palette_path>>),
       Step("ffmpeg", <<"-y", "-i", input, "-i", PalettePath, "-lavfi",
                        paletteuse_filter(size), output>>) >>

gif_steps(input, output, palette_path, fps, width, quality) ==
    LET size == gif_size(fps, width, quality) IN
    << Step("ffmpeg", <<"-y", "-i", input, "-vf", palettegen_filter(size),
                        palette_path>>),
       Step("ffmpeg", <<"-y", "-i", input, "-i", palette_path, "-lavfi",
                        paletteuse_filter(size), output>>) >>

(* split_steps, SplitMode::IntoParts: one step per part *)
split_part_step(input, i, parts, duration, overwrite) ==
    LET segment_duration == duration \div parts
        start  == i * segment_duration
        end    == IF i = parts - 1 THEN duration ELSE (i + 1) * segment_duration
        output == "part_" \o Pad3(i + 1) \o "_of_" \o Pad3(parts) \o ".mp4"
        video_codec == get_video_codec(ExtOf(input), "mp4")
        codec_args == IF video_codec = "copy" THEN <<"-c", "copy">>
                      ELSE <<"-c:v", video_codec, "-c:a", "copy">>
    IN  Step("ffmpeg",
             <<OverwriteFlag(overwrite), "-i", input, "-ss", ToString(start),
               "-t", ToString(end - start)>> \o codec_args \o <<output>>)

split_steps(input, parts, duration, overwrite) ==
    [k \in 1..parts |-> split_part_step(input, k - 1, parts, duration, overwrite)]

(* validate_steps: a single prober invocation *)
validate_steps(input) ==
    << Step("ffprobe", <<"-v", "error", "-show_entries", "format=duration,size",
                         "-of", "default=noprint_wrappers=1", input>>) >>

(* The output path of a step is the trailing argument; the prober writes none *)
OutputOf(step) ==
    IF step.program = "ffmpeg" THEN step.args[Len(step.args)] ELSE "-"

----------------------------------------------------------------------------
(* The diagnostic stream.  A line is a sequence of text fragments; the     *)
(* runner only looks at how a line begins and at what it contains.         *)

HeaderPrefixes ==
    {"ffmpeg version", "  built with", "  configuration:", "  lib", "Input #",
     "  Metadata:", "  Duration:", "    Stream #", "Stream mapping:",
     "Press [q]", "Output #", "["}

ErrorKeywords == {"error", "Error", "failed"}

ProgressToken == "time=00:00:01.00"     \* matches progress_re
Blank == " "

Lines ==
    { <<>>, <<Blank>>,
      <<"ffmpeg version", "text">>,
      <<"  Duration:", "text">>,
      <<"[", "libx264 @ 0x1] ", "text">>,
      <<"[", "mp4 @ 0x1] ", "error", " reading header">>,
      <<"frame=", ProgressToken, "text">>,
      <<"Error", " opening input">>,
      <<"Conversion ", "failed", "!">>,
      <<"text">> }

(* One item yielded by BufReader::lines(): a line, or a read error (for      *)
(* example bytes that are not valid UTF-8).                                 *)
ReadErrorItem == [ok |-> FALSE, line |-> <<>>]
NoItem == [ok |-> TRUE, line |-> <<>>]

starts_with(line, p) == Len(line) > 0 /\ line[1] = p
contains(line, kw)   == \E i \in DOMAIN line : line[i] = kw
trim_is_empty(line)  == \A i \in DOMAIN line : line[i] = Blank

IsHeaderLine(line) ==
    \/ \E p \in HeaderPrefixes : starts_with(line, p)
    \/ trim_is_empty(line)

MatchesProgress(line) == contains(line, ProgressToken)
HasErrorKeyword(line) == \E kw \in ErrorKeywords : contains(line, kw)

(* The body of the read loop for one line: what is displayed for it, given *)
(* the time elapsed since the last status-line update.                     *)
Show(line, elapsed) ==
    IF IsHeaderLine(line) THEN "skipped"
    ELSE IF MatchesProgress(line)
         THEN IF elapsed >= UpdateInterval THEN "progress" ELSE "throttled"
    ELSE IF HasErrorKeyword(line) THEN "error"
    ELSE "none"

Ticks == {k * TickMs : k \in 0..MaxTicks}
ExitCodes == {0, 1}

----------------------------------------------------------------------------
(* Errors *)

NoError == [context |-> "", program |-> "", status |-> 0]

(* bail!("{} failed with status: {}", step.program, status) *)
StatusErrorNoStatus(program, status) ==
    [context |-> "failed with status", program |-> program, status |-> 0]

StatusError(program, status) ==
    [context |-> "failed with status", program |-> program, status |-> status]

SpawnError(step) ==
    IF step.program = "ffmpeg"
    THEN [context |-> "failed to execute ffmpeg", program |-> "", status |-> 0]
    ELSE [context |-> "failed to execute command", program |-> "", status |-> 0]

ReadError  == [context |-> "failed to read stderr", program |-> "", status |-> 0]
ProbeError == [context |-> "ffprobe could not read duration", program |-> "", status |-> 0]
ToolError  == [context |-> "FFmpeg not found", program |-> "", status |-> 0]

(* bail!(msg) of a recipe that found its request unsatisfiable *)
PreconditionError(msg) == [context |-> msg, program |-> "", status |-> 0]

----------------------------------------------------------------------------
(* Filter graphs.  A filter_complex string "[a][b]f[c];[c]g[d]" is a list  *)
(* of stages, each with its input labels, its filter and its output labels.*)
(* A label is <<name, index>>: "[v3]" is <<"v", 3>>, "[row0]" is           *)
(* <<"row", 0>>, "[v]" is <<"v", -1>>; "[2:v]" is the input pad            *)
(* <<"in:v", 2>>, which names a source and not an intermediate stream.     *)

Stage(ins, filter, outs) == [ins |-> ins, filter |-> filter, outs |-> outs]

Pad(i)      == <<"in:v", i>>
Cell(i)     == <<"v", i>>
Row(r)      == <<"row", r>>
Plain(name) == <<name, -1>>
IsNamed(l)  == l[1] # "in:v"

GraphStep(overwrite, inputs, stages, maps, width, audio_codec) ==
    [program |-> "ffmpeg", flag |-> OverwriteFlag(overwrite), inputs |-> inputs,
     stages |-> stages, maps |-> maps, width |-> width, audio_codec |-> audio_codec]

Compiled(ss)  == [tag |-> "ok", steps |-> ss, msg |-> ""]
Failed(msg)   == [tag |-> "err", steps |-> <<>>, msg |-> msg]
Panicked(msg) == [tag |-> "panic", steps |-> <<>>, msg |-> msg]
NotCompiled   == [tag |-> "none", steps |-> <<>>, msg |-> ""]

(* the cells of one grid row: `if idx < videos.len()` keeps the filled ones *)
(* the filled cells are the first n - row*cols of the row, at most cols    *)
RowInputs(row, cols, n) ==
    LET left   == IF n > row * cols THEN n - row * cols ELSE 0
        filled == Min(cols, left)
    IN  [k \in 1..filled |-> Cell(row * cols + (k - 1))]

(* `cols * cell_width` is a u32 product.  It is computed here in units of  *)
(* 4 pixels (cell_width is a multiple of 4), so that the wrapped value     *)
(* (cols * cell_width) mod 2^32 is 4 * ((cols * cell_width/4) mod 2^30).   *)
WidthOverflows(cols) == cols > (2^30 - 1) \div (CellWidth \div 4)

wrapping_width(cols) == 4 * ((cols * (CellWidth \div 4)) % (2^30))

(* the rows that got at least one cell: `if !row_inputs.is_empty()` *)
FilledRows(rows, cols, n) ==
    SelectSeq([r \in 1..rows |-> r - 1], LAMBDA r : Len(RowInputs(r, cols, n)) > 0)

row_filters(rows, cols, n) ==
    LET fr == FilledRows(rows, cols, n)
    IN  [k \in 1..Len(fr) |-> Stage(RowInputs(fr[k], cols, n), "hstack", <<Row(fr[k])>>)]

row_labels(rows, cols, n) ==
    LET fr == FilledRows(rows, cols, n) IN [k \in 1..Len(fr) |-> Row(fr[k])]

VStackTail(labels) ==
    << Stage(labels, "vstack", <<Plain("vstack")>>),
       Stage(<<Plain("vstack")>>, "scale", <<Plain("v")>>) >>

SingleRowTail(labels) == << Stage(<<labels[1]>>, "scale", <<Plain("v")>>) >>

GridMaps == <<Plain("v"), Plain("0:a?")>>

(* montage_steps *)
montage_steps(n, cols, rows, overwrite) ==
    LET scale  == [k \in 1..n |-> Stage(<<Pad(k - 1)>>, "scale,pad", <<Cell(k - 1)>>)]
        labels == row_labels(rows, cols, n)
        output_width == wrapping_width(cols)
    IN  IF Len(labels) > 1
        THEN Compiled(<< GraphStep(overwrite, n,
                           scale \o row_filters(rows, cols, n) \o VStackTail(labels),
                           GridMaps, output_width, get_audio_codec(InputExt, "mp4")) >>)
        ELSE IF Len(labels) = 0
        THEN Panicked("row_labels[0]: index out of bounds")
        ELSE Compiled(<< GraphStep(overwrite, n,
                           scale \o row_filters(rows, cols, n) \o SingleRowTail(labels),
                           GridMaps, output_width, get_audio_codec(InputExt, "mp4")) >>)

(* collage_steps: reuses montage_steps *)
collage_steps(n, cols, rows, overwrite) == montage_steps(n, cols, rows, overwrite)

(* handle_montage / handle_collage: without --out the output path is built *)
(* from videos[0]                                                          *)
handle_grid(op, n, cols, rows, out_given, overwrite) ==
    IF ~out_given /\ n = 0
    THEN Panicked("videos[0]: index out of bounds")
    ELSE IF op = "montage" THEN montage_steps(n, cols, rows, overwrite)
    ELSE collage_steps(n, cols, rows, overwrite)

CeilSqrt(n) == CHOOSE c \in 0..n : c * c >= n /\ \A d \in 0..(c - 1) : d * d < n
CeilDiv(a, b) == (a + b - 1) \div b

(* sync_cameras_steps *)
sync_cameras_steps(n, overwrite) ==
    IF n < 2 THEN Failed("Sync cameras requires at least 2 videos")
    ELSE
    LET cols   == CeilSqrt(n)
        rows   == CeilDiv(n, cols)
        scale  == [k \in 1..n |-> Stage(<<Pad(k - 1)>>, "scale", <<Cell(k - 1)>>)]
        labels == row_labels(rows, cols, n)
        output_width == wrapping_width(cols)
        tail   == IF Len(labels) > 1 THEN VStackTail(labels)
                  ELSE IF Len(labels) > 0 THEN SingleRowTail(labels)
                  ELSE <<>>
    IN  Compiled(<< GraphStep(overwrite, n,
                      scale \o row_filters(rows, cols, n) \o tail,
                      GridMaps, output_width, get_audio_codec(InputExt, "mp4")) >>)

(* tile_steps: one input, split into cols*rows streams *)
tile_steps(cols, rows, overwrite) ==
    LET total_cells == cols * rows
        head   == << Stage(<<Pad(0)>>, "scale,pad", <<Plain("scaled")>>),
                     Stage(<<Plain("scaled")>>, "split",
                           [k \in 1..total_cells |-> Cell(k - 1)]) >>
        labels == row_labels(rows, cols, total_cells)
        output_width == wrapping_width(cols)
        tail   == IF Len(labels) > 1 THEN VStackTail(labels)
                  ELSE IF Len(labels) > 0 THEN SingleRowTail(labels)
                  ELSE <<>>
    IN  Compiled(<< GraphStep(overwrite, 1,
                      head \o row_filters(rows, cols, total_cells) \o tail,
                      GridMaps, output_width, get_audio_codec(InputExt, "mp4")) >>)

(* split_screen_steps *)
split_screen_steps(orientation, overwrite) ==
    LET halves == << Stage(<<Pad(0)>>, "scale", <<Cell(0)>>),
                     Stage(<<Pad(1)>>, "scale", <<Cell(1)>>) >>
        stages ==
            IF orientation = "horizontal"
            THEN halves \o << Stage(<<Cell(0), Cell(1)>>, "hstack", <<Plain("h")>>),
                              Stage(<<Plain("h")>>, "scale", <<Plain("v")>>) >>
            ELSE halves \o << Stage(<<Cell(0), Cell(1)>>, "vstack", <<Plain("v")>>),
                              Stage(<<Plain("v")>>, "scale", <<Plain("v")>>) >>
    IN  Compiled(<< GraphStep(overwrite, 2, stages, GridMaps, 0,
                              get_audio_codec(InputExt, "mp4")) >>)

XfadeName(transition_type) ==
    CASE transition_type = "fade"  -> "xfade=transition=fade:duration=1:offset=4"
      [] transition_type = "wipe"  -> "xfade=transition=wipeleft:duration=1:offset=4"
      [] transition_type = "slide" -> "xfade=transition=slideleft:duration=1:offset=4"

(* transition_steps: the xfade output carries no label and is not mapped *)
transition_steps(transition_type, overwrite) ==
    Compiled(<< GraphStep(overwrite, 2,
                  << Stage(<<Pad(0), Pad(1)>>, XfadeName(transition_type), <<>>) >>,
                  <<Plain("0:a?")>>, 0, "copy") >>)

NoGraphRequest ==
    [op |-> "none", n |-> 0, cols |-> 1, rows |-> 1, kind |-> "", out |-> FALSE,
     overwrite |-> FALSE]

NoRecipeRequest == [op |-> "none"]

(* no value parser is at work *)
NoValueRequest == [kind |-> "none"]
NoValue == [stage |-> "none"]

ValueIdle ==
    /\ valueReq = NoValueRequest
    /\ valueOut = NoValue

(* handle_batch was not called *)
BatchIdle ==
    /\ globbed = <<>>
    /\ batchFiles = <<>>
    /\ batchIdx = 0
    /\ attempted = <<>>
    /\ successful = 0
    /\ failed = 0
    /\ batchPc = "done"
    /\ batchResult = "none"

AuxIdle == ValueIdle /\ BatchIdle

----------------------------------------------------------------------------
(* The handlers *)

(* Option<T>: None is the empty sequence, Some(v) is <<v>> *)
None == <<>>
Some(v) == <<v>>

Max(a, b) == IF a > b THEN a ELSE b

RECURSIVE Join(_)
Join(parts) ==
    IF Len(parts) = 0 THEN ""
    ELSE IF Len(parts) = 1 THEN parts[1]
    ELSE parts[1] \o "," \o Join(Tail(parts))

(* fade_steps: the afade chain; the fade-out start needs the probed duration *)
fade_filter_parts(fade_in, fade_out, duration) ==
    LET in_part ==
            IF fade_in # None
            THEN << "afade=t=in:st=0:d=" \o ToString(fade_in[1]) >>
            ELSE <<>>
        out_part ==
            IF fade_out # None
            THEN LET fade_out_start == Max(duration - fade_out[1], 0) IN
                 IF fade_out_start > 0
                 THEN << "afade=t=out:st=" \o ToString(fade_out_start)
                            \o ":d=" \o ToString(fade_out[1]) >>
                 ELSE << "afade=t=out:st=0:d="
                            \o ToString(Min(duration, fade_out[1])) >>
            ELSE <<>>
    IN  in_part \o out_part

fade_steps(input, output, fade_in, fade_out, duration, overwrite) ==
    LET filter_parts == fade_filter_parts(fade_in, fade_out, duration) IN
    IF Len(filter_parts) = 0
    THEN Failed("At least one fade (in or out) must be specified")
    ELSE Compiled(<< Step("ffmpeg",
             <<OverwriteFlag(overwrite), "-i", input, "-af", Join(filter_parts),
               "-c:v", get_video_codec(InputExt, "mp4"), "-c:a", "aac", output>>) >>)

FadeDurations == {None, Some(FadeSeconds), Some(ProbedSeconds + FadeSeconds)}

Requests ==
    [op : {"gif", "validate"}, n : {0}, fade_in : {None}, fade_out : {None}]
    \cup [op : {"split"}, n : 1..MaxParts, fade_in : {None}, fade_out : {None}]
    \cup [op : {"fade"}, n : {0}, fade_in : FadeDurations, fade_out : FadeDurations]

Configs == [dry_run : BOOLEAN, explain : BOOLEAN, overwrite : BOOLEAN]

(* the recipes that call probe::duration_seconds while compiling *)
NeedsProbe(req) ==
    \/ req.op = "split"
    \/ req.op = "fade" /\ req.fade_out # None

CompileSteps(req, cfg) ==
    CASE req.op = "gif"      -> gif_steps(InputPath, "in_gif.gif", PalettePath,
                                          GifFps, GifWidth, <<>>)
      [] req.op = "validate" -> validate_steps(InputPath)
      [] req.op = "split"    -> split_steps(InputPath, req.n, ProbedMillis, cfg.overwrite)

(* what the recipe called by the handler returns: Ok(steps) or Err *)
CompileRequest(req, cfg) ==
    IF req.op = "fade"
    THEN fade_steps(InputPath, "in_faded.mp4", req.fade_in, req.fade_out,
                    ProbedSeconds, cfg.overwrite)
    ELSE Compiled(CompileSteps(req, cfg))

(* the processes probe::duration_seconds spawns: ensure_ffprobe_exists,   *)
(* then the prober itself                                                  *)
ProbeProcesses == <<"ffprobe -version", "ffprobe">>

(* ensure_ffmpeg_exists when `ffmpeg -version` could not be started: what  *)
(* it spawned and whether the handler goes on                              *)
MissingToolOutcomes ==
    { [spawned |-> <<>>, ok |-> FALSE],                   \* no package manager
      [spawned |-> <<"apt --version">>, ok |-> FALSE],    \* installation declined
      [spawned |-> <<"apt --version", "sh -c apt-get install">>, ok |-> FALSE],
      [spawned |-> <<"apt --version", "sh -c apt-get install", "ffmpeg -version">>,
       ok |-> TRUE] }

(* `if self.dry_run { return Ok(()) }` *)
ShouldExecuteAlways(cfg) == TRUE
ShouldExecuteUnlessExplain(cfg) == ~cfg.dry_run /\ ~cfg.explain

ShouldExecute(cfg) == ~cfg.dry_run

(* `if self.show_progress && step.program == "ffmpeg"`; show_progress is   *)
(* always true for a runner built by CliRunner::new                        *)
UsesProgress(step) == step.program = "ffmpeg"

(* `runner.run(&step)?` inside `for step in steps`: where the handler goes *)
(* once run has returned r for step i                                      *)
AfterRunIgnoringErrors(r, i) ==
    [pc |-> "loop", idx |-> i + 1, result |-> "none"]

AfterRunRetrying(r, i) ==
    IF r = "err" THEN [pc |-> "loop", idx |-> i, result |-> "none"]
    ELSE [pc |-> "loop", idx |-> i + 1, result |-> "none"]

AfterRun(r, i) ==
    IF r = "err" THEN [pc |-> "done", idx |-> i, result |-> "err"]
    ELSE [pc |-> "loop", idx |-> i + 1, result |-> "none"]

(* child.wait(): the state of the child once wait has returned *)
ChildNotWaited == "running"

ChildAfterWait == "exited"

(* What an exiting process leaves on disk *)
FilesAfterExit(fs, step, status) ==
    IF status = 0 /\ step.program = "ffmpeg" THEN fs \cup {OutputOf(step)} ELSE fs

Init ==
    /\ config \in Configs
    /\ request \in Requests
    /\ pc = "start"
    /\ steps = <<>>
    /\ idx = 1
    /\ result = "none"
    /\ error = NoError
    /\ child = <<>>
    /\ spawns = <<>>
    /\ exitOf = <<>>
    /\ runResult = <<>>
    /\ spawnOrder = <<>>
    /\ printed = [explain |-> FALSE, step |-> Step("", <<>>)]
    /\ since = 0
    /\ linesRead = 0
    /\ lastLine = NoItem
    /\ lastShown = "none"
    /\ files = {}
    /\ helpers = <<>>
    /\ graphReq = NoGraphRequest
    /\ graphOut = NotCompiled
    /\ recipeReq = NoRecipeRequest
    /\ recipeOut = NotCompiled
    /\ AuxIdle

(* ensure_ffmpeg_exists, first statement of every handler: `ffmpeg -version` *)
(* was started                                                             *)
EnsureFfmpeg ==
    /\ pc = "start"
    /\ helpers' = Append(helpers, "ffmpeg -version")
    /\ pc' = "compile"
    /\ UNCHANGED <<config, request, steps, idx, result, error, child, spawns,
                   exitOf, runResult, spawnOrder, printed, since, linesRead,
                   lastLine, lastShown, files, graphVars, recipeVars, auxVars>>

(* ensure_ffmpeg_exists: `ffmpeg -version` could not be started; the       *)
(* package manager is looked up and the installation offered               *)
EnsureFfmpegMissing ==
    /\ pc = "start"
    /\ \E o \in MissingToolOutcomes :
        /\ helpers' = helpers \o o.spawned
        /\ pc' = IF o.ok THEN "compile" ELSE "done"
        /\ result' = IF o.ok THEN result ELSE "err"
        /\ error' = IF o.ok THEN error ELSE ToolError
    /\ UNCHANGED <<config, request, steps, idx, child, spawns, exitOf, runResult,
                   spawnOrder, printed, since, linesRead, lastLine, lastShown,
                   files, graphVars, recipeVars, auxVars>>

(* handle_*: the recipe produced its steps *)
(* what the handler creates before it compiles: handle_split does          *)
(* create_dir_all of "<stem>_split"; the other handlers call               *)
(* create_dir_all on the input's directory, which exists                   *)
HandlerCreates(req) == IF req.op = "split" THEN {"in_split"} ELSE {}

Compile ==
    /\ pc = "compile"
    /\ CompileRequest(request, config).tag = "ok"
    /\ LET ss == CompileRequest(request, config).steps IN
        /\ steps' = ss
        /\ child' = [i \in DOMAIN ss |-> "none"]
        /\ spawns' = [i \in DOMAIN ss |-> 0]
        /\ exitOf' = [i \in DOMAIN ss |-> 0]
        /\ runResult' = [i \in DOMAIN ss |-> "none"]
    /\ helpers' = IF NeedsProbe(request) THEN helpers \o ProbeProcesses ELSE helpers
    /\ files' = files \cup HandlerCreates(request)
    /\ pc' = "loop"
    /\ idx' = 1
    /\ UNCHANGED <<config, request, result, error, spawnOrder, printed, since,
                   linesRead, lastLine, lastShown, graphVars, recipeVars, auxVars>>

(* the recipe: probe::duration_seconds(input)? failed *)
CompileProbeFails ==
    /\ pc = "compile"
    /\ NeedsProbe(request)
    /\ helpers' = helpers \o ProbeProcesses
    /\ pc' = "done"
    /\ result' = "err"
    /\ error' = ProbeError
    /\ files' = files \cup HandlerCreates(request)
    /\ UNCHANGED <<config, request, steps, idx, child, spawns, exitOf, runResult,
                   spawnOrder, printed, since, linesRead, lastLine, lastShown,
                   graphVars, recipeVars, auxVars>>

(* the recipe rejected the request: `bail!` on a violated precondition *)
CompileRejects ==
    /\ pc = "compile"
    /\ CompileRequest(request, config).tag = "err"
    /\ pc' = "done"
    /\ result' = "err"
    /\ error' = PreconditionError(CompileRequest(request, config).msg)
    /\ UNCHANGED <<config, request, steps, idx, child, spawns, exitOf, runResult,
                   spawnOrder, printed, since, linesRead, lastLine, lastShown,
                   files, helpers, graphVars, recipeVars, auxVars>>

Return(r, err) ==
    LET nxt == AfterRun(r, idx) IN
    /\ runResult' = [runResult EXCEPT ![idx] = r]
    /\ pc' = nxt.pc
    /\ idx' = nxt.idx
    /\ result' = nxt.result
    /\ error' = err

PrintRunning == printed' = [explain |-> config.explain, step |-> steps[idx]]

(* run, lines 33-42: print the invocation; in dry-run return Ok *)
RunDry ==
    /\ pc = "loop" /\ idx \in DOMAIN steps
    /\ ~ShouldExecute(config)
    /\ PrintRunning
    /\ Return("ok", error)
    /\ UNCHANGED <<config, request, steps, child, spawns, exitOf, spawnOrder,
                   since, linesRead, lastLine, lastShown, files, helpers, graphVars, recipeVars, auxVars>>

(* run: Command::spawn / Command::status could not start the program *)
RunSpawnFails ==
    /\ pc = "loop" /\ idx \in DOMAIN steps
    /\ ShouldExecute(config)
    /\ PrintRunning
    /\ Return("err", SpawnError(steps[idx]))
    /\ UNCHANGED <<config, request, steps, child, spawns, exitOf, spawnOrder,
                   since, linesRead, lastLine, lastShown, files, helpers, graphVars, recipeVars, auxVars>>

(* run: the process is spawned; the runner then reads its stderr            *)
(* (run_with_progress) or blocks in Command::status                        *)
RunSpawn ==
    /\ pc = "loop" /\ idx \in DOMAIN steps
    /\ ShouldExecute(config)
    /\ PrintRunning
    /\ \E e \in ExitCodes : exitOf' = [exitOf EXCEPT ![idx] = e]
    /\ child' = [child EXCEPT ![idx] = "running"]
    /\ spawns' = [spawns EXCEPT ![idx] = @ + 1]
    /\ spawnOrder' = Append(spawnOrder, idx)
    /\ pc' = IF UsesProgress(steps[idx]) THEN "reading" ELSE "status"
    /\ since' = 0
    /\ linesRead' = 0
    /\ UNCHANGED <<config, request, steps, idx, result, error, runResult,
                   lastLine, lastShown, files, helpers, graphVars, recipeVars, auxVars>>

(* run_with_progress: one iteration of `for line_result in lines` *)
ReadLine ==
    /\ pc = "reading"
    /\ linesRead < MaxLines
    /\ \E l \in Lines, d \in Ticks :
        LET elapsed == Min(since + d, UpdateInterval)
            shown   == Show(l, elapsed)
        IN  /\ lastLine' = [ok |-> TRUE, line |-> l]
            /\ lastShown' = shown
            /\ since' = IF shown = "progress" THEN 0 ELSE elapsed
    /\ linesRead' = linesRead + 1
    /\ UNCHANGED <<config, request, pc, steps, idx, result, error, child, spawns,
                   exitOf, runResult, spawnOrder, printed, files, helpers, graphVars, recipeVars, auxVars>>

(* run_with_progress: `line_result.context("failed to read stderr")?`      *)
(* returns without waiting for the child                                   *)
ReadFails ==
    /\ pc = "reading"
    /\ linesRead < MaxLines
    /\ lastLine' = ReadErrorItem
    /\ lastShown' = "none"
    /\ linesRead' = linesRead + 1
    /\ Return("err", ReadError)
    /\ UNCHANGED <<config, request, steps, child, spawns, exitOf, spawnOrder,
                   printed, since, files, helpers, graphVars, recipeVars, auxVars>>

Exit(program) ==
    LET status == exitOf[idx] IN
    /\ child' = [child EXCEPT ![idx] = ChildAfterWait]
    /\ files' = FilesAfterExit(files, steps[idx], status)
    /\ IF status # 0
       THEN Return("err", StatusError(program, status))
       ELSE Return("ok", error)

(* run_with_progress: the stream closed; child.wait() and the status check *)
StreamEnd ==
    /\ pc = "reading"
    /\ Exit("ffmpeg")
    /\ UNCHANGED <<config, request, steps, spawns, exitOf, spawnOrder, printed,
                   since, linesRead, lastLine, lastShown, helpers, graphVars, recipeVars, auxVars>>

(* run: cmd.status() returned, for a program that is not ffmpeg *)
StatusReturn ==
    /\ pc = "status"
    /\ Exit(steps[idx].program)
    /\ UNCHANGED <<config, request, steps, spawns, exitOf, spawnOrder, printed,
                   since, linesRead, lastLine, lastShown, helpers, graphVars, recipeVars, auxVars>>

(* A child the runner is no longer supervising terminates on its own *)
OrphanExit ==
    /\ \E i \in DOMAIN child :
        /\ child[i] = "running"
        /\ pc \in {"loop", "done"} \/ i # idx
        /\ child' = [child EXCEPT ![i] = "exited"]
        /\ files' = FilesAfterExit(files, steps[i], exitOf[i])
    /\ UNCHANGED <<config, request, pc, steps, idx, result, error, spawns, exitOf,
                   runResult, spawnOrder, printed, since, linesRead, lastLine,
                   lastShown, helpers, graphVars, recipeVars, auxVars>>

(* the handler: every step ran, `Ok(())` *)
HandlerReturn ==
    /\ pc = "loop" /\ idx > Len(steps)
    /\ pc' = "done"
    /\ result' = "ok"
    /\ UNCHANGED <<config, request, steps, idx, error, child, spawns, exitOf,
                   runResult, spawnOrder, printed, since, linesRead, lastLine,
                   lastShown, files, helpers, graphVars, recipeVars, auxVars>>

Next ==
    \/ EnsureFfmpeg
    \/ EnsureFfmpegMissing
    \/ Compile
    \/ CompileProbeFails
    \/ CompileRejects
    \/ RunDry
    \/ RunSpawnFails
    \/ RunSpawn
    \/ ReadLine
    \/ ReadFails
    \/ StreamEnd
    \/ StatusReturn
    \/ OrphanExit
    \/ HandlerReturn

Spec == Init /\ [][Next]_vars

----------------------------------------------------------------------------
(* The recipes applied to bounded inputs *)

GridOps == {"montage", "collage", "sync_cameras"}

(* the first number of columns whose width does not fit a u32 *)
OverflowCols == (2^30 - 1) \div (CellWidth \div 4) + 1

GraphRequests ==
    [op : {"montage", "collage"}, n : 0..MaxVideos, cols : 1..MaxDim,
     rows : 1..MaxDim, kind : {""}, out : BOOLEAN, overwrite : BOOLEAN]
    \cup [op : {"montage", "collage"}, n : 1..MaxVideos, cols : {OverflowCols},
          rows : {1}, kind : {""}, out : BOOLEAN, overwrite : BOOLEAN]
    \cup [op : {"sync_cameras"}, n : 0..MaxVideos, cols : {1}, rows : {1},
          kind : {""}, out : {TRUE}, overwrite : BOOLEAN]
    \cup [op : {"tile"}, n : {1}, cols : 1..MaxDim, rows : 1..MaxDim,
          kind : {""}, out : {TRUE}, overwrite : BOOLEAN]
    \cup [op : {"split_screen"}, n : {2}, cols : {1}, rows : {1},
          kind : {"horizontal", "vertical"}, out : {TRUE}, overwrite : BOOLEAN]
    \cup [op : {"transition"}, n : {2}, cols : {1}, rows : {1},
          kind : {"fade", "wipe", "slide"}, out : {TRUE}, overwrite : BOOLEAN]

EngineIdle ==
    /\ config = [dry_run |-> TRUE, explain |-> FALSE, overwrite |-> FALSE]
    /\ request = [op |-> "none", n |-> 0, fade_in |-> None, fade_out |-> None]
    /\ pc = "done"
    /\ steps = <<>>
    /\ idx = 1
    /\ result = "none"
    /\ error = NoError
    /\ child = <<>>
    /\ spawns = <<>>
    /\ exitOf = <<>>
    /\ runResult = <<>>
    /\ spawnOrder = <<>>
    /\ printed = [explain |-> FALSE, step |-> Step("", <<>>)]
    /\ since = 0
    /\ linesRead = 0
    /\ lastLine = NoItem
    /\ lastShown = "none"
    /\ files = {}
    /\ helpers = <<>>

InitGraph ==
    /\ EngineIdle
    /\ graphReq \in GraphRequests
    /\ graphOut = NotCompiled
    /\ recipeReq = NoRecipeRequest
    /\ recipeOut = NotCompiled
    /\ AuxIdle

Emit(op, out) ==
    /\ graphReq.op = op
    /\ graphOut = NotCompiled
    /\ graphOut' = out
    /\ UNCHANGED <<graphReq, engineVars, recipeVars, auxVars>>

CompileMontage ==
    Emit("montage", handle_grid("montage", graphReq.n, graphReq.cols, graphReq.rows,
                                graphReq.out, graphReq.overwrite))

CompileCollage ==
    Emit("collage", handle_grid("collage", graphReq.n, graphReq.cols, graphReq.rows,
                                graphReq.out, graphReq.overwrite))

(* a build with overflow checks: `cols * cell_width` panics instead of      *)
(* wrapping                                                                *)
CompileGridOverflowChecked ==
    /\ graphReq.op \in {"montage", "collage"}
    /\ handle_grid(graphReq.op, graphReq.n, graphReq.cols, graphReq.rows,
                   graphReq.out, graphReq.overwrite).tag = "ok"
    /\ WidthOverflows(graphReq.cols)
    /\ Emit(graphReq.op, Panicked("attempt to multiply with overflow"))

CompileSyncCameras ==
    Emit("sync_cameras", sync_cameras_steps(graphReq.n, graphReq.overwrite))

CompileTile ==
    Emit("tile", tile_steps(graphReq.cols, graphReq.rows, graphReq.overwrite))

CompileSplitScreen ==
    Emit("split_screen", split_screen_steps(graphReq.kind, graphReq.overwrite))

CompileTransition ==
    Emit("transition", transition_steps(graphReq.kind, graphReq.overwrite))

NextGraph ==
    \/ CompileMontage
    \/ CompileCollage
    \/ CompileGridOverflowChecked
    \/ CompileSyncCameras
    \/ CompileTile
    \/ CompileSplitScreen
    \/ CompileTransition

SpecGraph == InitGraph /\ [][NextGraph]_vars

----------------------------------------------------------------------------
(* The recipes that compute their invocations from numbers: split,         *)
(* extract-frames, crossfade, speed, compress, codec selection.  Times are *)
(* in milliseconds, the precision of the "{:.3}" seconds the recipes print.*)

MaxSegments == MaxParts + 1    \* iterations of a recipe loop that are followed

(* probe::duration_seconds: `dur.max(0.01)`, so no probed duration is 0 *)
Durations == {MinProbedMillis, ProbedMillis}

(* Duration::parse accepts every non-negative number of seconds, 0 included *)
Intervals == {0, 2 * ProbedMillis} \cup {ProbedMillis \div k : k \in 1..MaxParts}

InputPaths == {InputPath, "in.webm", "in.mkv", "in.wmv"}

SplitRequests ==
    [op : {"split_parts"}, input : InputPaths, parts : 0..MaxParts,
     duration : Durations, overwrite : BOOLEAN]
    \cup [op : {"split_every", "extract_frames"}, input : InputPaths,
          interval : Intervals, duration : Durations, overwrite : BOOLEAN]

(* Time (model/types.rs).  A text is its colon-separated groups, a group   *)
(* its decimal digits: "1:05" is << <<1>>, <<0, 5>> >>.                    *)
DigitChars == {0, 6}

Groups == UNION {[1..k -> DigitChars] : k \in 1..MaxDigits}

(* str::parse::<u32> of a group of digits *)
RECURSIVE parse_u32(_)
parse_u32(g) ==
    IF Len(g) = 0 THEN 0
    ELSE 10 * parse_u32(SubSeq(g, 1, Len(g) - 1)) + g[Len(g)]

(* the digits "{}" prints for a number *)
RECURSIVE DigitsOf(_)
DigitsOf(n) == IF n < 10 THEN <<n>> ELSE Append(DigitsOf(n \div 10), n % 10)

(* "{:02}": at least two digits, more when the number needs them *)
Pad2(n) == IF n < 10 THEN <<0, n>> ELSE DigitsOf(n)

TimeOf(h, m, s) == [hours |-> h, minutes |-> m, seconds |-> s]

(* Time::parse: ^(\d+)(?::(\d{1,2}))?(?::(\d{1,2}))?$ *)
Time_parse(text) ==
    LET short(g) == Len(g) <= 2
    IN  CASE Len(text) = 1 -> Some(TimeOf(0, 0, parse_u32(text[1])))
          [] Len(text) = 2 /\ short(text[2]) ->
                Some(TimeOf(0, parse_u32(text[1]), parse_u32(text[2])))
          [] Len(text) = 3 /\ short(text[2]) /\ short(text[3]) ->
                Some(TimeOf(parse_u32(text[1]), parse_u32(text[2]), parse_u32(text[3])))
          [] OTHER -> None

(* Time::to_ffmpeg: format!("{:02}:{:02}:{:02}", hours, minutes, seconds) *)
to_ffmpeg(t) == <<Pad2(t.hours), Pad2(t.minutes), Pad2(t.seconds)>>

(* Time::to_seconds *)
to_seconds(t) == t.hours * 3600 + t.minutes * 60 + t.seconds

(* a text as the string that goes into an argument vector *)
RECURSIVE GroupString(_)
GroupString(g) ==
    IF Len(g) = 0 THEN "" ELSE ToString(g[1]) \o GroupString(Tail(g))

RECURSIVE TextString(_)
TextString(text) ==
    IF Len(text) = 1 THEN GroupString(text[1])
    ELSE GroupString(text[1]) \o ":" \o TextString(Tail(text))

(* trim_steps *)
trim_steps(input, output, start, end, overwrite) ==
    << Step("ffmpeg",
            <<OverwriteFlag(overwrite), "-i", input, "-ss", TextString(to_ffmpeg(start)),
              "-to", TextString(to_ffmpeg(end)), "-c:v", "libx264", "-c:a", "aac",
              output>>) >>

(* extract_keyframes_steps *)
extract_keyframes_steps(input, output_dir) ==
    << Step("ffmpeg",
            <<"-i", input, "-vf", "select='eq(pict_type,I)'", "-vsync", "vfr",
              "-f", "image2", output_dir \o "/keyframe_%05d.jpg">>) >>

(* compare_steps *)
compare_steps(video1, video2, output, overwrite) ==
    << Step("ffmpeg",
            <<OverwriteFlag(overwrite), "-i", video1, "-i", video2,
              "-filter_complex", "scale;scale;hstack;scale", "-map", "[v]",
              "-map", "0:a?", "-c:v", "libx264", "-pix_fmt", "yuv420p",
              "-c:a", get_audio_codec(ExtOf(video1), "mp4"), output>>) >>

(* compare_steps_with_metrics *)
compare_steps_with_metrics(video1, video2, output, overwrite, show_psnr) ==
    IF show_psnr
    THEN Append(compare_steps(video1, video2, output, overwrite),
                Step("ffmpeg",
                     <<"-i", video1, "-i", video2, "-lavfi", "scale;scale;psnr;ssim",
                       "-f", "null", "-">>))
    ELSE compare_steps(video1, video2, output, overwrite)

TrimTimes == {TimeOf(0, 0, 6), TimeOf(0, 6, 0), TimeOf(6, 0, 0)}

PlainRequests ==
    [op : {"trim"}, start : TrimTimes, end : TrimTimes, overwrite : BOOLEAN]
    \cup [op : {"extract_keyframes"}, input : InputPaths]
    \cup [op : {"compare"}, video1 : {Video1, "a.webm"}, show_psnr : BOOLEAN,
          overwrite : BOOLEAN]

(* what a recipe returned, and the inputs it asked the prober about *)
Returned(res, probed) ==
    [tag |-> res.tag, steps |-> res.steps, msg |-> res.msg, probed |-> probed]

(* inside a recipe's loop; `turning` flips on every iteration whose step   *)
(* is no longer recorded                                                   *)
Running(ss, probed) ==
    [tag |-> "running", steps |-> ss, msg |-> "", probed |-> probed,
     turning |-> FALSE]

(* split_steps, SplitMode::Every: the body of `while start < duration`;    *)
(* `start = end` makes start the sum of the segments emitted so far        *)
every_start(k, interval, duration) == Min(k * interval, duration)

split_every_step(input, k, interval, duration, overwrite) ==
    LET start == every_start(k, interval, duration)
        end   == Min(start + interval, duration)
        output == "segment_" \o Pad3(k + 1) \o ".mp4"
        video_codec == get_video_codec(ExtOf(input), "mp4")
        codec_args == IF video_codec = "copy" THEN <<"-c", "copy">>
                      ELSE <<"-c:v", video_codec, "-c:a", "copy">>
    IN  Step("ffmpeg",
             <<OverwriteFlag(overwrite), "-i", input, "-ss", ToString(start),
               "-t", ToString(end - start)>> \o codec_args \o <<output>>)

(* extract_frames_steps: the body of `while time < duration` *)
frame_time(k, interval) == k * interval

extract_frame_step(input, k, interval, overwrite) ==
    Step("ffmpeg",
         <<OverwriteFlag(overwrite), "-ss", ToString(frame_time(k, interval)),
           "-i", input, "-frames:v", "1", "-q:v", "2",
           "frame_" \o Pad3(k + 1) \o ".jpg">>)

(* the loop variable of the recipe after k iterations *)
LoopCursor(req, k) ==
    IF req.op = "split_every" THEN every_start(k, req.interval, req.duration)
    ELSE frame_time(k, req.interval)

LoopStep(req, k) ==
    IF req.op = "split_every"
    THEN split_every_step(req.input, k, req.interval, req.duration, req.overwrite)
    ELSE extract_frame_step(req.input, k, req.interval, req.overwrite)

IsLoopRecipe(req) == req.op \in {"split_every", "extract_frames"}

(* Option<QualityPreset> *)
QualityPresets == {<<>>, <<"low">>, <<"medium">>, <<"high">>, <<"ultra">>}

GifRequests ==
    [op : {"gif"}, output : {"in_gif.gif", "out/clip.gif"},
     palette : {PalettePath, "out/palette.png"}, quality : QualityPresets]

(* durations in whole seconds, as the prober reports them for two sources *)
SourceSeconds == {1, ProbedSeconds \div 2, ProbedSeconds}

CrossfadeSeconds == {FadeSeconds, ProbedSeconds + FadeSeconds}


XfadeRequests ==
    [op : {"crossfade"}, video1 : {Video1, "a.webm"}, t : CrossfadeSeconds,
     d1 : SourceSeconds, d2 : SourceSeconds, overwrite : BOOLEAN]
    \cup [op : {"transition"}, kind : {"fade", "wipe", "slide"}, d1 : SourceSeconds,
          d2 : SourceSeconds, overwrite : BOOLEAN]

xfade_text(name, duration, offset) ==
    "xfade=transition=" \o name \o ":duration=" \o ToString(duration)
        \o ":offset=" \o ToString(offset)

(* crossfade_steps: video1_duration and the duration of video2 come from   *)
(* the prober                                                              *)
crossfade_offset(video1_duration, video2_duration, crossfade_duration) ==
    LET min_duration == Min(video1_duration, video2_duration)
    IN  Max(min_duration - crossfade_duration, 0)

crossfade_steps(video1, video2, output, crossfade_duration, video1_duration, video2_duration, overwrite) ==
    LET transition_start ==
            crossfade_offset(video1_duration, video2_duration, crossfade_duration)
    IN  << Step("ffmpeg",
             <<OverwriteFlag(overwrite), "-i", video1, "-i", video2,
               "-filter_complex",
               "[0:v][1:v]" \o xfade_text("fade", crossfade_duration, transition_start)
                   \o "[v]",
               "-map", "[v]", "-map", "0:a?", "-c:v", "libx264", "-c:a", "copy",
               output>>) >>

(* transition_steps as an argument vector: the filter text is a literal *)
transition_args(input1, input2, output, transition_type, overwrite) ==
    <<OverwriteFlag(overwrite), "-i", input1, "-i", input2, "-filter_complex",
      "[0:v][1:v]" \o XfadeName(transition_type),
      "-c:v", "libx264", "-c:a", "copy", "-map", "0:a?", output>>

(* the inputs a recipe asks the prober about, in the order it asks *)
ProbeTargets(req) ==
    CASE req.op \in {"split_parts", "split_every", "extract_frames"} -> <<req.input>>
      [] req.op = "crossfade" -> <<req.video1, Video2>>
      [] req.op = "compress_size" -> <<InputPath>>
      [] OTHER -> <<>>

(* Speed factors and tempo stages are exact fractions n/d; an f64 halves   *)
(* and doubles without rounding, so the only rounding is the one of the    *)
(* "{:.6}" text of the final stage.                                        *)
Frac(n, d) == [n |-> n, d |-> d]

Two  == Frac(2, 1)      \* "atempo=2.0"
Half == Frac(1, 2)      \* "atempo=0.5"

(* format!("{:.6}", x): x to the nearest millionth *)
Round6(x) == Frac((2 * x.n * Million + x.d) \div (2 * x.d), Million)

SpeedRequests ==
    [op : {"speed_up", "speed_down", "keep_pitch"}, n : 1..MaxFactor,
     d : 1..MaxFactor, overwrite : BOOLEAN]

(* `while remaining > 2.0 { parts.push("atempo=2.0"); remaining /= 2.0; }` *)
RECURSIVE halve_while_above_two(_, _)
halve_while_above_two(parts, remaining) ==
    IF remaining.n > 2 * remaining.d
    THEN halve_while_above_two(Append(parts, Two),
                               Frac(remaining.n, 2 * remaining.d))
    ELSE [parts |-> parts, remaining |-> remaining]

(* `while remaining < 0.5 { parts.push("atempo=0.5"); remaining /= 0.5; }` *)
RECURSIVE double_while_below_half(_, _)
double_while_below_half(parts, remaining) ==
    IF 2 * remaining.n < remaining.d
    THEN double_while_below_half(Append(parts, Half),
                                 Frac(2 * remaining.n, remaining.d))
    ELSE [parts |-> parts, remaining |-> remaining]

atempo_loops(f) ==
    LET above == halve_while_above_two(<<>>, f)
    IN  double_while_below_half(above.parts, above.remaining)

(* build_atempo_chain: the final stage is always pushed, as "{:.6}" text *)
build_atempo_chain_no_final(f) == atempo_loops(f).parts

build_atempo_chain(f) ==
    LET r == atempo_loops(f) IN Append(r.parts, Round6(r.remaining))

(* audio_speed_keep_pitch_steps: its own copy of the loops; the final      *)
(* stage is pushed only `if (remaining - 1.0).abs() > 0.01`, as "{}" text  *)
Abs(x) == IF x < 0 THEN -x ELSE x

keep_pitch_chain(factor) ==
    LET r == atempo_loops(factor) IN
    IF 100 * Abs(r.remaining.n - r.remaining.d) > r.remaining.d
    THEN Append(r.parts, r.remaining)
    ELSE r.parts

(* the tempo each recipe hands to its chain: f, or 1.0 / f to slow down *)
RequestedTempo(req) ==
    IF req.op = "speed_down" THEN Frac(req.d, req.n) ELSE Frac(req.n, req.d)

SpeedChain(req) ==
    IF req.op = "keep_pitch" THEN keep_pitch_chain(RequestedTempo(req))
    ELSE build_atempo_chain(RequestedTempo(req))

FracText(x) == ToString(x.n) \o "/" \o ToString(x.d)

(* parts.join(","); an empty chain of the pitch-preserving recipe is "anull" *)
ChainText(chain) ==
    IF Len(chain) = 0 THEN "anull"
    ELSE Join([k \in DOMAIN chain |-> "atempo=" \o FracText(chain[k])])

(* speed_up_steps, speed_down_steps, audio_speed_keep_pitch_steps *)
speed_steps(req) ==
    IF req.op = "keep_pitch"
    THEN << Step("ffmpeg",
              <<OverwriteFlag(req.overwrite), "-i", InputPath, "-af",
                ChainText(SpeedChain(req)), "-c:v", get_video_codec(InputExt, "mp4"),
                "-c:a", "aac", "in_speed.mp4">>) >>
    ELSE << Step("ffmpeg",
              <<OverwriteFlag(req.overwrite), "-i", InputPath, "-filter_complex",
                "[0:v]setpts=PTS" \o (IF req.op = "speed_up" THEN "/" ELSE "*")
                    \o FracText(Frac(req.n, req.d)) \o "[v];[0:a]"
                    \o ChainText(SpeedChain(req)) \o "[a]",
                "-map", "[v]", "-map", "[a]", "-c:v", "libx264", "-c:a", "aac",
                "in_speed.mp4">>) >>

ReturnedChain(ss, chain) ==
    [tag |-> "ok", steps |-> ss, msg |-> "", probed |-> <<>>, chain |-> chain]

Clamp(x, lo, hi) == Max(lo, Min(x, hi))

TargetBytes    == {j * ByteStep : j \in 0..MaxTargetSteps}
TargetBitrates == {j * 8 * ByteStep + j : j \in 0..MaxTargetSteps}

CompressRequests ==
    [op : {"compress_size"}, bytes : TargetBytes, duration : SourceSeconds,
     two_pass : BOOLEAN, overwrite : BOOLEAN]
    \cup [op : {"compress_bitrate"}, bps : TargetBitrates,
          two_pass : BOOLEAN, overwrite : BOOLEAN]

(* compress_steps, "Calculate bitrates".  The f64 values are kept exact as *)
(* multiples of 1/(25 * duration_sec) bits per second: 0.08 is 2/25.       *)
size_allocation_audio_unclamped(target_bytes, duration_sec) ==
    LET unit      == 25 * duration_sec
        total_bps == Max(200 * target_bytes, MinVideoBps * unit)
        audio_bps == (2 * total_bps) \div 25
        video_bps == Max(total_bps - audio_bps, MinVideoBps * unit)
    IN  [v_kbps |-> video_bps \div (1000 * unit),
         a_kbps |-> audio_bps \div (1000 * unit)]

size_allocation_audio_on_top(target_bytes, duration_sec) ==
    LET unit      == 25 * duration_sec
        total_bps == Max(200 * target_bytes, MinVideoBps * unit)
        audio_bps == Clamp((2 * total_bps) \div 25, MinAudioBps * unit,
                           MaxAudioBps * unit)
    IN  [v_kbps |-> total_bps \div (1000 * unit),
         a_kbps |-> audio_bps \div (1000 * unit)]

size_allocation(target_bytes, duration_sec) ==
    LET unit      == 25 * duration_sec
        total_bps == Max(200 * target_bytes, MinVideoBps * unit)
        audio_bps == Clamp((2 * total_bps) \div 25, MinAudioBps * unit,
                           MaxAudioBps * unit)
        video_bps == Max(total_bps - audio_bps, MinVideoBps * unit)
    IN  [v_kbps |-> video_bps \div (1000 * unit),
         a_kbps |-> audio_bps \div (1000 * unit)]

(* compress_bitrate_steps: values kept exact as multiples of 1/25 bps *)
bitrate_allocation_audio_taken_out(target_bitrate_bps) ==
    LET audio_bps == Clamp(2 * target_bitrate_bps, MinAudioBps * 25, MaxAudioBps * 25)
        video_bps == Max(25 * target_bitrate_bps - audio_bps, MinVideoBps * 25)
    IN  [v_kbps |-> video_bps \div 25000, a_kbps |-> audio_bps \div 25000]

bitrate_allocation(target_bitrate_bps) ==
    LET v_kbps    == Max(target_bitrate_bps \div 1000, MinVideoBps \div 1000)
        audio_bps == Clamp(2 * target_bitrate_bps, MinAudioBps * 25, MaxAudioBps * 25)
    IN  [v_kbps |-> v_kbps, a_kbps |-> audio_bps \div 25000]

Kbps(n) == ToString(n) \o "k"

(* the argument vectors shared by compress_steps and compress_bitrate_steps *)
compress_args(input, output, alloc, overwrite, two_pass) ==
    IF two_pass
    THEN << Step("ffmpeg", <<"-y", "-i", input, "-c:v", "libx264", "-b:v",
                            Kbps(alloc.v_kbps), "-pass", "1", "-an", "-f", "mp4",
                            "/dev/null">>),
            Step("ffmpeg", <<OverwriteFlag(overwrite), "-i", input, "-c:v", "libx264",
                            "-b:v", Kbps(alloc.v_kbps), "-pass", "2", "-c:a", "aac",
                            "-b:a", Kbps(alloc.a_kbps), "-movflags", "+faststart",
                            output>>) >>
    ELSE << Step("ffmpeg", <<OverwriteFlag(overwrite), "-i", input, "-c:v", "libx264",
                            "-b:v", Kbps(alloc.v_kbps), "-c:a", "aac",
                            "-b:a", Kbps(alloc.a_kbps), "-movflags", "+faststart",
                            output>>) >>

compress_steps(input, output, target_bytes, duration_sec, overwrite, two_pass) ==
    compress_args(input, output, size_allocation(target_bytes, duration_sec),
                  overwrite, two_pass)

compress_bitrate_steps(input, output, target_bitrate_bps, overwrite, two_pass) ==
    compress_args(input, output, bitrate_allocation(target_bitrate_bps),
                  overwrite, two_pass)

ReturnedAlloc(ss, probed, alloc) ==
    [tag |-> "ok", steps |-> ss, msg |-> "", probed |-> probed, alloc |-> alloc]

RecipeRequests ==
    SplitRequests \cup GifRequests \cup XfadeRequests \cup SpeedRequests
        \cup CompressRequests \cup PlainRequests

RecipeNeedsProbe(req) == Len(ProbeTargets(req)) > 0

InitRecipes ==
    /\ EngineIdle
    /\ graphReq = NoGraphRequest
    /\ graphOut = NotCompiled
    /\ recipeReq \in RecipeRequests
    /\ recipeOut = NotCompiled
    /\ AuxIdle

RecipeReturns(out) ==
    /\ recipeOut' = out
    /\ UNCHANGED <<recipeReq, engineVars, graphVars, auxVars>>

(* `probe::duration_seconds(input)?` propagated the prober's failure *)
RecipeProbeFails ==
    /\ recipeOut = NotCompiled
    /\ RecipeNeedsProbe(recipeReq)
    /\ \E k \in 1..Len(ProbeTargets(recipeReq)) :
        RecipeReturns(Returned(Failed(ProbeError.context),
                               SubSeq(ProbeTargets(recipeReq), 1, k)))

(* split_steps, SplitMode::IntoParts *)
CompileSplitParts ==
    /\ recipeOut = NotCompiled
    /\ recipeReq.op = "split_parts"
    /\ RecipeReturns(Returned(
           Compiled(split_steps(recipeReq.input, recipeReq.parts, recipeReq.duration,
                                recipeReq.overwrite)),
           ProbeTargets(recipeReq)))

(* handle_trim *)
CompileTrim ==
    /\ recipeOut = NotCompiled
    /\ recipeReq.op = "trim"
    /\ RecipeReturns(Returned(
           Compiled(trim_steps(InputPath, "in_trim.mp4", recipeReq.start,
                               recipeReq.end, recipeReq.overwrite)),
           <<>>))

(* handle_extract_keyframes *)
CompileExtractKeyframes ==
    /\ recipeOut = NotCompiled
    /\ recipeReq.op = "extract_keyframes"
    /\ RecipeReturns(Returned(
           Compiled(extract_keyframes_steps(recipeReq.input, "in_keyframes")),
           <<>>))

(* handle_compare *)
CompileCompare ==
    /\ recipeOut = NotCompiled
    /\ recipeReq.op = "compare"
    /\ RecipeReturns(Returned(
           Compiled(compare_steps_with_metrics(recipeReq.video1, Video2,
                        "a_compared.mp4", recipeReq.overwrite, recipeReq.show_psnr)),
           <<>>))

(* gif_steps *)
CompileGif ==
    /\ recipeOut = NotCompiled
    /\ recipeReq.op = "gif"
    /\ RecipeReturns(Returned(
           Compiled(gif_steps(InputPath, recipeReq.output, recipeReq.palette,
                              GifFps, GifWidth, recipeReq.quality)),
           <<>>))

(* crossfade_steps *)
CompileCrossfade ==
    /\ recipeOut = NotCompiled
    /\ recipeReq.op = "crossfade"
    /\ RecipeReturns(Returned(
           Compiled(crossfade_steps(recipeReq.video1, Video2, "a_crossfade.mp4", recipeReq.t,
                                    recipeReq.d1, recipeReq.d2, recipeReq.overwrite)),
           ProbeTargets(recipeReq)))

(* transition_steps: nothing is probed *)
CompileTransitionArgs ==
    /\ recipeOut = NotCompiled
    /\ recipeReq.op = "transition"
    /\ RecipeReturns(Returned(
           Compiled(<< Step("ffmpeg",
                        transition_args(Video1, Video2, "a_transition.mp4",
                                        recipeReq.kind, recipeReq.overwrite)) >>),
           ProbeTargets(recipeReq)))

(* speed_up_steps / speed_down_steps / audio_speed_keep_pitch_steps *)
CompileSpeed ==
    /\ recipeOut = NotCompiled
    /\ recipeReq.op \in {"speed_up", "speed_down", "keep_pitch"}
    /\ RecipeReturns(ReturnedChain(speed_steps(recipeReq), SpeedChain(recipeReq)))

(* handle_compress, CompressTarget::Size: probe, then compress_steps *)
CompileCompressSize ==
    /\ recipeOut = NotCompiled
    /\ recipeReq.op = "compress_size"
    /\ RecipeReturns(ReturnedAlloc(
           compress_steps(InputPath, "in_compressed.mp4", recipeReq.bytes,
                          recipeReq.duration, recipeReq.overwrite, recipeReq.two_pass),
           ProbeTargets(recipeReq),
           size_allocation(recipeReq.bytes, recipeReq.duration)))

(* handle_compress, CompressTarget::Bitrate: compress_bitrate_steps *)
CompileCompressBitrate ==
    /\ recipeOut = NotCompiled
    /\ recipeReq.op = "compress_bitrate"
    /\ RecipeReturns(ReturnedAlloc(
           compress_bitrate_steps(InputPath, "in_compressed.mp4", recipeReq.bps,
                                  recipeReq.overwrite, recipeReq.two_pass),
           ProbeTargets(recipeReq),
           bitrate_allocation(recipeReq.bps)))

(* split_steps / extract_frames_steps: the probe answered, the loop starts *)
LoopBegin ==
    /\ recipeOut = NotCompiled
    /\ IsLoopRecipe(recipeReq)
    /\ RecipeReturns(Running(<<>>, ProbeTargets(recipeReq)))

(* one iteration of the `while` loop: a step is pushed *)
LoopIterate ==
    /\ recipeOut.tag = "running"
    /\ IsLoopRecipe(recipeReq)
    /\ LoopCursor(recipeReq, Len(recipeOut.steps)) < recipeReq.duration
    /\ Len(recipeOut.steps) < MaxSegments
    /\ RecipeReturns(Running(
           Append(recipeOut.steps, LoopStep(recipeReq, Len(recipeOut.steps))),
           recipeOut.probed))

(* an iteration past the followed ones: the condition is still true, the  *)
(* loop pushes another step and goes round again                           *)
LoopIterateOn ==
    /\ recipeOut.tag = "running"
    /\ IsLoopRecipe(recipeReq)
    /\ LoopCursor(recipeReq, Len(recipeOut.steps)) < recipeReq.duration
    /\ Len(recipeOut.steps) = MaxSegments
    /\ RecipeReturns([recipeOut EXCEPT !.turning = ~@])

(* only a cursor that does not move is followed that far *)
OnlyStuckLoopsGoOn ==
    (/\ recipeOut.tag = "running"
     /\ IsLoopRecipe(recipeReq)
     /\ Len(recipeOut.steps) = MaxSegments
     /\ LoopCursor(recipeReq, Len(recipeOut.steps)) < recipeReq.duration)
        => LoopCursor(recipeReq, Len(recipeOut.steps)) = LoopCursor(recipeReq, 0)

(* the loop condition is false: `Ok(steps)` *)
LoopEnd ==
    /\ recipeOut.tag = "running"
    /\ IsLoopRecipe(recipeReq)
    /\ ~(LoopCursor(recipeReq, Len(recipeOut.steps)) < recipeReq.duration)
    /\ RecipeReturns(Returned(Compiled(recipeOut.steps), recipeOut.probed))

NextRecipes ==
    \/ RecipeProbeFails
    \/ CompileGif
    \/ CompileCrossfade
    \/ CompileTransitionArgs
    \/ CompileSpeed
    \/ CompileCompressSize
    \/ CompileCompressBitrate
    \/ CompileSplitParts
    \/ CompileTrim
    \/ CompileExtractKeyframes
    \/ CompileCompare
    \/ LoopBegin
    \/ LoopIterate
    \/ LoopIterateOn
    \/ LoopEnd

SpecRecipes == InitRecipes /\ [][NextRecipes]_vars

(* a recipe runs on one thread with nothing to wait for: a step that can   *)
(* be taken is taken                                                       *)
SpecRecipesLive == SpecRecipes /\ WF_vars(NextRecipes)

----------------------------------------------------------------------------
(* The value parsers (model/types.rs), applied to bounded texts.           *)

(* the texts handed to Time::parse: one to three groups of digits, and a   *)
(* fourth group that the pattern does not allow                            *)
TimeTexts ==
    UNION {[1..g -> Groups] : g \in 1..TimeGroups}
        \cup [1..(TimeGroups + 1) -> {g \in Groups : Len(g) = 1}]

(* a number as written: an optional minus sign, the integer digits, the    *)
(* optional digits after the point, an optional "%"; or "WxH"              *)
NumberTexts ==
    [shape : {"number"}, neg : BOOLEAN, int : Groups,
     frac : {None} \cup {Some(g) : g \in Groups}, pct : BOOLEAN]
    \cup [shape : {"WxH"}, w : Groups, h : Groups]

(* "x,y,width,height" and the texts with fewer fields *)
RegionTexts == UNION {[1..k -> {<<0>>, <<6>>}] : k \in 1..4}

ValueRequests ==
    [kind : {"time"}, text : TimeTexts]
    \cup [kind : {"watermark_size"}, text : NumberTexts]
    \cup [kind : {"blur_region"}, text : RegionTexts]

RECURSIVE Pow10(_)
Pow10(k) == IF k = 0 THEN 1 ELSE 10 * Pow10(k - 1)

(* str::parse::<f64> of a number text, as the exact fraction it denotes *)
parse_f64(t) ==
    LET k   == IF t.frac = None THEN 0 ELSE Len(t.frac[1])
        mag == parse_u32(t.int) * Pow10(k)
                   + (IF t.frac = None THEN 0 ELSE parse_u32(t.frac[1]))
    IN  Frac(IF t.neg THEN -mag ELSE mag, Pow10(k))

(* `x as u32` of an f64: truncates toward zero, negative values become 0 *)
f64_as_u32(x) == IF x.n < 0 THEN 0 ELSE x.n \div x.d

Percentage(x) == [variant |-> "Percentage", value |-> x]
Pixels(width, height) == [variant |-> "Pixels", width |-> width, height |-> height]

(* WatermarkSize::parse *)
WatermarkSize_parse(t) ==
    IF t.shape = "WxH"
    THEN Some(Pixels(parse_u32(t.w), Some(parse_u32(t.h))))
    ELSE LET num == parse_f64(t)
             percentage == Frac(num.n, num.d * 100)
         IN  IF t.pct
             THEN IF percentage.n < 0 \/ percentage.n > percentage.d
                  THEN None
                  ELSE Some(Percentage(percentage))
             ELSE IF num.n >= 0 /\ num.n <= num.d /\ t.frac # None
                  THEN Some(Percentage(num))
                  ELSE Some(Pixels(f64_as_u32(num), None))

(* BlurRegion::parse *)
BlurRegion_parse(t) ==
    IF Len(t) # 4 THEN None
    ELSE LET width  == parse_u32(t[3])
             height == parse_u32(t[4])
         IN  IF width = 0 \/ height = 0 THEN None
             ELSE Some([x |-> parse_u32(t[1]), y |-> parse_u32(t[2]),
                        width |-> width, height |-> height])

Parsed(value) == [stage |-> "parsed", value |-> value]

InitValues ==
    /\ EngineIdle
    /\ graphReq = NoGraphRequest
    /\ graphOut = NotCompiled
    /\ recipeReq = NoRecipeRequest
    /\ recipeOut = NotCompiled
    /\ valueReq \in ValueRequests
    /\ valueOut = NoValue
    /\ BatchIdle

ValueReturns(out) ==
    /\ valueOut' = out
    /\ UNCHANGED <<valueReq, engineVars, graphVars, recipeVars, batchVars>>

ParseTime ==
    /\ valueReq.kind = "time"
    /\ valueOut = NoValue
    /\ ValueReturns(Parsed(Time_parse(valueReq.text)))

(* time.to_seconds() and time.to_ffmpeg() of a parsed time *)
FormatTime ==
    /\ valueReq.kind = "time"
    /\ valueOut.stage = "parsed"
    /\ valueOut.value # None
    /\ ValueReturns([stage |-> "formatted", value |-> valueOut.value,
                     seconds |-> to_seconds(valueOut.value[1]),
                     rendered |-> to_ffmpeg(valueOut.value[1])])

(* Time::parse of the rendered text *)
ReparseTime ==
    /\ valueOut.stage = "formatted"
    /\ ValueReturns([stage |-> "reparsed", value |-> valueOut.value,
                     seconds |-> valueOut.seconds, rendered |-> valueOut.rendered,
                     again |-> Time_parse(valueOut.rendered)])

ParseWatermarkSize ==
    /\ valueReq.kind = "watermark_size"
    /\ valueOut = NoValue
    /\ ValueReturns(Parsed(WatermarkSize_parse(valueReq.text)))

ParseBlurRegion ==
    /\ valueReq.kind = "blur_region"
    /\ valueOut = NoValue
    /\ ValueReturns(Parsed(BlurRegion_parse(valueReq.text)))

NextValues ==
    \/ ParseTime
    \/ FormatTime
    \/ ReparseTime
    \/ ParseWatermarkSize
    \/ ParseBlurRegion

SpecValues == InitValues /\ [][NextValues]_vars

----------------------------------------------------------------------------
(* handle_batch (commands/batch.rs).  An entry of the glob is a readable   *)
(* file, a directory or an unreadable path; entry k has the path k.        *)

EntryKinds == {"file", "dir", "unreadable"}

Globs ==
    UNION {[1..n -> EntryKinds] : n \in 0..MaxFiles}

(* .filter_map(|entry| entry.ok()).filter(|path| path.is_file()) *)
MatchedFiles(entries) ==
    SelectSeq([k \in 1..Len(entries) |-> k], LAMBDA k : entries[k] = "file")

InitBatch ==
    /\ EngineIdle
    /\ graphReq = NoGraphRequest
    /\ graphOut = NotCompiled
    /\ recipeReq = NoRecipeRequest
    /\ recipeOut = NotCompiled
    /\ ValueIdle
    /\ globbed \in Globs
    /\ batchFiles = <<>>
    /\ batchIdx = 0
    /\ attempted = <<>>
    /\ successful = 0
    /\ failed = 0
    /\ batchPc = "start"
    /\ batchResult = "none"

BatchFrame == UNCHANGED <<engineVars, graphVars, recipeVars, valueVars, globbed>>

(* `ensure_ffmpeg_exists()?` failed *)
BatchToolMissing ==
    /\ batchPc = "start"
    /\ batchPc' = "done"
    /\ batchResult' = "err"
    /\ UNCHANGED <<batchFiles, batchIdx, attempted, successful, failed>>
    /\ BatchFrame

(* `if files.is_empty() { bail!(...) }` *)
BatchNoFiles ==
    /\ batchPc = "start"
    /\ MatchedFiles(globbed) = <<>>
    /\ batchPc' = "done"
    /\ batchResult' = "err"
    /\ UNCHANGED <<batchFiles, batchIdx, attempted, successful, failed>>
    /\ BatchFrame

(* the files are collected and the loop begins *)
BatchStart ==
    /\ batchPc = "start"
    /\ MatchedFiles(globbed) # <<>>
    /\ batchFiles' = MatchedFiles(globbed)
    /\ batchIdx' = 1
    /\ batchPc' = "loop"
    /\ UNCHANGED <<attempted, successful, failed, batchResult>>
    /\ BatchFrame

Attempt(file, res) == [file |-> file, result |-> res]

(* `match app.execute(intent) { Ok(_) => ... }` *)
BatchFileOk ==
    /\ batchPc = "loop" /\ batchIdx \in DOMAIN batchFiles
    /\ attempted' = Append(attempted, Attempt(batchFiles[batchIdx], "ok"))
    /\ successful' = successful + 1
    /\ batchIdx' = batchIdx + 1
    /\ UNCHANGED <<batchFiles, failed, batchPc, batchResult>>
    /\ BatchFrame

(* where the loop goes after a file failed *)
AfterFileErrorStops(i) == [pc |-> "done", idx |-> i, result |-> "err"]

(* `Err(e) => { failed += 1; ... }`: "Continue with next file instead of   *)
(* failing completely"                                                     *)
AfterFileError(i) == [pc |-> "loop", idx |-> i + 1, result |-> "none"]

BatchFileErr ==
    /\ batchPc = "loop" /\ batchIdx \in DOMAIN batchFiles
    /\ attempted' = Append(attempted, Attempt(batchFiles[batchIdx], "err"))
    /\ failed' = failed + 1
    /\ batchIdx' = AfterFileError(batchIdx).idx
    /\ batchPc' = AfterFileError(batchIdx).pc
    /\ batchResult' = AfterFileError(batchIdx).result
    /\ UNCHANGED <<batchFiles, successful>>
    /\ BatchFrame

(* the loop is over: the summary is printed, `Ok(())` *)
BatchReturn ==
    /\ batchPc = "loop" /\ batchIdx > Len(batchFiles)
    /\ batchPc' = "done"
    /\ batchResult' = "ok"
    /\ UNCHANGED <<batchFiles, batchIdx, attempted, successful, failed>>
    /\ BatchFrame

NextBatch ==
    \/ BatchToolMissing
    \/ BatchNoFiles
    \/ BatchStart
    \/ BatchFileOk
    \/ BatchFileErr
    \/ BatchReturn

SpecBatch == InitBatch /\ [][NextBatch]_vars

----------------------------------------------------------------------------
(* Properties of the execution engine (Spec) *)

Live == ~config.dry_run

(* the process of step i was not started, or ended with a failure status *)
InvocationFailed(i) ==
    /\ runResult[i] = "err"
    /\ \/ spawns[i] = 0
       \/ child[i] = "exited" /\ exitOf[i] # 0

(* C1: in live mode, once an invocation exits non-zero or cannot be        *)
(* spawned, no later invocation of the sequence is spawned and the handler *)
(* has returned a failure.                                                 *)
C1_FailFast ==
    Live =>
        \A i \in DOMAIN runResult :
            InvocationFailed(i) =>
                /\ \A j \in DOMAIN steps : j > i => spawns[j] = 0 /\ child[j] = "none"
                /\ pc = "done"
                /\ result = "err"

C1_Witness ==
    /\ Live /\ Len(steps) = 3 /\ pc = "done"
    /\ runResult[1] = "err" /\ child[1] = "exited" /\ exitOf[1] # 0
    /\ spawns[2] = 0 /\ spawns[3] = 0

(* C2: invocations are spawned in the order compiled, invocation k+1 only  *)
(* after invocation k has terminated, and never two are running at once.   *)
C2_OneAtATimeInOrder ==
    /\ spawnOrder = [k \in 1..Len(spawnOrder) |-> k]
    /\ Cardinality({i \in DOMAIN child : child[i] = "running"}) <= 1
    /\ \A k \in DOMAIN child : (k > 1 /\ spawns[k] > 0) => child[k - 1] = "exited"

C2_Witness ==
    /\ Len(steps) = 3 /\ spawnOrder = <<1, 2, 3>> /\ child[3] = "running"
    /\ child[1] = "exited" /\ child[2] = "exited"

(* C3: in dry-run mode run spawns no process and returns success, so a     *)
(* compiled sequence of any length spawns nothing and succeeds.            *)
C3_DryRunSpawnsNothing ==
    config.dry_run =>
        /\ spawnOrder = <<>>
        /\ \A i \in DOMAIN steps :
            spawns[i] = 0 /\ child[i] = "none" /\ runResult[i] \in {"none", "ok"}
        /\ (pc = "done" /\ steps # <<>>) => result = "ok"

C3_Witness ==
    /\ config.dry_run /\ ~config.explain /\ Len(steps) = 3 /\ pc = "done"
    /\ result = "ok" /\ \A i \in DOMAIN steps : runResult[i] = "ok"

(* C4 as stated: with the explain flag set, run spawns no process and      *)
(* returns success for every invocation.                                   *)
C4_ExplainSpawnsNothing ==
    config.explain =>
        \A i \in DOMAIN steps : spawns[i] = 0 /\ runResult[i] \in {"none", "ok"}

(* C4 amended: with the explain flag set, run spawns no process and        *)
(* returns success exactly when the dry-run flag is set too; otherwise the *)
(* invocation is executed as in live mode.  The flag only marks the        *)
(* printed line.                                                           *)
C4_ExplainFollowsDryRun ==
    config.explain =>
        /\ \A i \in DOMAIN steps :
            runResult[i] # "none" =>
                /\ (spawns[i] = 0 /\ runResult[i] = "ok") <=> config.dry_run
                /\ printed.explain
        /\ \A i \in DOMAIN steps : spawns[i] > 0 => Live

C4_Witness ==
    /\ config.explain /\ Live /\ printed.explain
    /\ \E i \in DOMAIN steps : spawns[i] = 1 /\ runResult[i] = "ok" /\ child[i] = "exited"

(* C5: the result of a live invocation depends only on the exit status of  *)
(* its process: run returns success exactly when the status is zero,       *)
(* whatever the diagnostic stream carried.                                 *)
C5_OutcomeOnlyFromExitStatus ==
    \A i \in DOMAIN steps :
        (spawns[i] > 0 /\ runResult[i] # "none") =>
            (runResult[i] = "ok" <=> exitOf[i] = 0)

(* C6: every line read from the diagnostic stream that contains an error   *)
(* keyword is displayed at once, however it begins and whatever else it    *)
(* contains.                                                               *)
C6_ErrorLinesShown ==
    (lastLine.ok /\ HasErrorKeyword(lastLine.line)) => lastShown = "error"

(* What the error of a failed status check says about a step: the error    *)
(* text is "<program> failed with status: <status>".                       *)
ErrorFits(err, step) == err.program = step.program

(* C7 as stated: the error of a failed invocation identifies that exact    *)
(* invocation, so that it fits no other invocation of the sequence.        *)
C7_ErrorIdentifiesInvocation ==
    (result = "err" /\ error.context = "failed with status") =>
        {j \in DOMAIN steps : ErrorFits(error, steps[j])} = {idx}

(* C7 amended: the error of an invocation that exited non-zero names the   *)
(* program of that invocation and its exit status, not its arguments; the  *)
(* exact invocation is the last "Running:" line printed before the error.  *)
C7_ErrorNamesProgramAndStatus ==
    (result = "err" /\ error.context = "failed with status") =>
        /\ idx \in DOMAIN steps
        /\ error.program = steps[idx].program
        /\ error.status = exitOf[idx] /\ error.status # 0
        /\ printed.step = steps[idx]

C7_Witness ==
    /\ result = "err" /\ error.context = "failed with status"
    /\ Len(steps) = 2 /\ idx = 2 /\ runResult[1] = "ok"

(* C8: no invocation is ever spawned a second time, and the output of an   *)
(* invocation that succeeded stays on disk whatever happens afterwards.    *)
C8_NoRetryNoRollback ==
    /\ \A i \in DOMAIN steps : spawns[i] <= 1
    /\ \A i \in DOMAIN steps :
        (child[i] = "exited" /\ exitOf[i] = 0 /\ UsesProgress(steps[i]))
            => OutputOf(steps[i]) \in files

C8_Witness ==
    /\ Len(steps) = 3 /\ result = "err" /\ pc = "done"
    /\ runResult[1] = "ok" /\ OutputOf(steps[1]) \in files
    /\ runResult[2] = "err" /\ spawns[2] = 1

(* the handler returned the error of a violated precondition *)
RejectedByPrecondition ==
    /\ result = "err"
    /\ error = PreconditionError("At least one fade (in or out) must be specified")

(* C11: when a request is rejected with a precondition error, no external  *)
(* process has been spawned for that request before the error is reported. *)
C11_RejectedBeforeAnySpawn ==
    RejectedByPrecondition => (helpers = <<>> /\ spawnOrder = <<>>)

----------------------------------------------------------------------------
(* Properties of the emitted filter graphs (SpecGraph) *)

Range(seq) == {seq[i] : i \in DOMAIN seq}

OutPositions(g) ==
    UNION {{<<k, m>> : m \in DOMAIN g.stages[k].outs} : k \in DOMAIN g.stages}

InPositions(g) ==
    UNION {{<<k, m>> : m \in DOMAIN g.stages[k].ins} : k \in DOMAIN g.stages}

ProducedAt(g, l) == {p \in OutPositions(g) : g.stages[p[1]].outs[p[2]] = l}
ConsumedAt(g, l) == {p \in InPositions(g) : g.stages[p[1]].ins[p[2]] = l}
MappedAt(g, l)   == {m \in DOMAIN g.maps : g.maps[m] = l}

StreamLabels(g) == {g.stages[p[1]].outs[p[2]] : p \in OutPositions(g)}

GraphWellFormed(g) ==
    /\ \A l \in StreamLabels(g) :
        /\ Cardinality(ProducedAt(g, l)) = 1
        /\ Cardinality(ConsumedAt(g, l)) + Cardinality(MappedAt(g, l)) = 1
        /\ \A p \in ProducedAt(g, l), c \in ConsumedAt(g, l) : c[1] > p[1]
    /\ \A p \in InPositions(g) :
        LET l == g.stages[p[1]].ins[p[2]] IN IsNamed(l) => l \in StreamLabels(g)
    /\ Len(g.stages) > 0
    /\ LET final == g.stages[Len(g.stages)] IN
        /\ final.outs # <<>>
        /\ \A m \in DOMAIN final.outs : final.outs[m] \in Range(g.maps)

(* the request passes the command line's own check of the video count *)
WithinCapacity(r) == r.op \in {"montage", "collage"} => r.n <= r.cols * r.rows

(* C9: in every emitted filter graph each named stream is produced exactly *)
(* once and consumed exactly once downstream, and the final stream has a   *)
(* label that is mapped to the output.                                     *)
C9_LabelsProducedAndConsumedOnce ==
    (graphOut.tag = "ok" /\ WithinCapacity(graphReq)) =>
        \A k \in DOMAIN graphOut.steps : GraphWellFormed(graphOut.steps[k])

(* the fewest inputs any grid operation can lay out *)
FewestInputs(op) == IF op = "sync_cameras" THEN 2 ELSE 1

(* C10: a grid request with fewer inputs than its layout needs, zero       *)
(* included, gets a descriptive error: no invocation, no crash.            *)
C10_TooFewInputsRejected ==
    (/\ graphReq.op \in GridOps
     /\ graphOut # NotCompiled
     /\ graphReq.n < FewestInputs(graphReq.op))
        => graphOut.tag = "err"

(* the number of columns of the grid a request lays out *)
GridCols(r) == IF r.op = "sync_cameras" THEN CeilSqrt(r.n) ELSE r.cols

(* the number of streams a request puts into its grid *)
GridInputs(r) == IF r.op = "tile" THEN r.cols * r.rows ELSE r.n

GridEmitted ==
    /\ graphReq.op \in GridOps \cup {"tile"}
    /\ graphOut.tag = "ok"
    /\ GridInputs(graphReq) >= 1
    /\ graphReq.op \in {"montage", "collage", "tile"}
            => graphReq.cols * graphReq.rows >= GridInputs(graphReq)

(* C22: for every cols x rows layout and every input count n with          *)
(* cols*rows >= n >= 1, the width to which the grid is rescaled is an even  *)
(* number divisible by cols.                                               *)
C22_WidthEvenAndDivisibleByCols ==
    GridEmitted =>
        \A k \in DOMAIN graphOut.steps :
            /\ graphOut.steps[k].width % 2 = 0
            /\ graphOut.steps[k].width % GridCols(graphReq) = 0

(* the rows of a grid: the stages that stack cells horizontally *)
GridRows(g) == SelectSeq(g.stages, LAMBDA st : st.filter = "hstack")

(* C29: in every grid with more than one row, all rows handed to the       *)
(* vertical stack hold the same number of cells, cols, so that they have   *)
(* the same width.                                                         *)
C29_RowsHaveColsCells ==
    (graphReq.op \in GridOps \cup {"tile"} /\ graphOut.tag = "ok") =>
        \A k \in DOMAIN graphOut.steps :
            LET rows == GridRows(graphOut.steps[k]) IN
            Len(rows) > 1 =>
                \A r \in DOMAIN rows : Len(rows[r].ins) = GridCols(graphReq)

----------------------------------------------------------------------------
(* Properties of the computed recipes (SpecRecipes) *)

(* C12: every compilation that succeeds yields at least one invocation,    *)
(* for every parameter value the recipe accepts: split into N parts for    *)
(* every N, split and extract-frames at every accepted interval.           *)
C12_CompiledSequenceNonEmpty ==
    recipeOut.tag = "ok" => Len(recipeOut.steps) >= 1

(* the paths a step reads: the arguments that follow "-i" *)
InputsOf(step) ==
    {step.args[i + 1] : i \in {j \in 1..(Len(step.args) - 1) : step.args[j] = "-i"}}

(* C13: a convert-to-GIF request compiles to exactly two invocations: the  *)
(* palette generation, which writes the palette file, then the palette     *)
(* application, which reads that palette path and writes the output.       *)
C13_GifIsPaletteThenRender ==
    (recipeReq.op = "gif" /\ recipeOut # NotCompiled) =>
        /\ recipeOut.tag = "ok"
        /\ Len(recipeOut.steps) = 2
        /\ LET gen == recipeOut.steps[1]
               use == recipeOut.steps[2]
               size == gif_size(GifFps, GifWidth, recipeReq.quality)
           IN  /\ palettegen_filter(size) \in Range(gen.args)
               /\ OutputOf(gen) = recipeReq.palette
               /\ paletteuse_filter(size) \in Range(use.args)
               /\ OutputOf(gen) \in InputsOf(use)
               /\ InputsOf(use) = {InputPath, recipeReq.palette}
               /\ OutputOf(use) = recipeReq.output

C13_Witness ==
    /\ recipeReq.op = "gif" /\ recipeOut.tag = "ok"
    /\ recipeReq.palette # PalettePath /\ recipeReq.quality = <<"high">>
    /\ Len(recipeOut.steps) = 2

(* the name and the duration of the transition a request asks for *)
TransitionName(req) ==
    CASE req.op = "crossfade" -> "fade"
      [] req.kind = "fade"    -> "fade"
      [] req.kind = "wipe"    -> "wipeleft"
      [] req.kind = "slide"   -> "slideleft"

TransitionSeconds(req) == IF req.op = "crossfade" THEN req.t ELSE 1

TimesProbed(out, path) == Cardinality({i \in DOMAIN out.probed : out.probed[i] = path})

(* C14: a crossfade or transition with transition duration t probes each   *)
(* of the two sources exactly once and emits the start offset              *)
(* max(min(d1, d2) - t, 0), d1 and d2 being the probed durations.          *)
C14_OffsetFromProbedDurations ==
    (recipeReq.op \in {"crossfade", "transition"} /\ recipeOut.tag = "ok") =>
        LET t == TransitionSeconds(recipeReq)
            offset == Max(Min(recipeReq.d1, recipeReq.d2) - t, 0)
            first == IF recipeReq.op = "crossfade" THEN recipeReq.video1 ELSE Video1
        IN  /\ TimesProbed(recipeOut, first) = 1
            /\ TimesProbed(recipeOut, Video2) = 1
            /\ \E label \in {"", "[v]"} :
                  ("[0:v][1:v]" \o xfade_text(TransitionName(recipeReq), t, offset)
                      \o label) \in Range(recipeOut.steps[1].args)

(* fractions compared and multiplied without division *)
SameFactor(a, b) == a.n * b.d = b.n * a.d
AtLeast(a, b) == a.n * b.d >= b.n * a.d

RECURSIVE Product(_)
Product(chain) ==
    IF Len(chain) = 0 THEN Frac(1, 1)
    ELSE LET rest == Product(Tail(chain))
         IN  Frac(chain[1].n * rest.n, chain[1].d * rest.d)

Front(chain) == SubSeq(chain, 1, Len(chain) - 1)
Last(chain)  == chain[Len(chain)]

(* the shape every tempo chain must have: 2.0 / 0.5 stages, then one final *)
(* stage within [0.5, 2.0]                                                 *)
ChainShape(chain) ==
    /\ Len(chain) >= 1
    /\ AtLeast(Last(chain), Half) /\ AtLeast(Two, Last(chain))
    /\ \A k \in DOMAIN Front(chain) : chain[k] \in {Two, Half}

PlainSpeed == recipeReq.op \in {"speed_up", "speed_down"} /\ recipeOut.tag = "ok"

C16_KeepPitchUsesSameChain ==
    (recipeReq.op = "keep_pitch" /\ recipeOut.tag = "ok") =>
        LET plain == build_atempo_chain(RequestedTempo(recipeReq)) IN
        /\ Len(recipeOut.chain) = Len(plain)
        /\ \A k \in DOMAIN plain : SameFactor(recipeOut.chain[k], plain[k])
        /\ ChainShape(recipeOut.chain)
        /\ SameFactor(Product(recipeOut.chain), RequestedTempo(recipeReq))

SizeTargeted == recipeReq.op = "compress_size" /\ recipeOut.tag = "ok"

(* the emitted "-b:v" and "-b:a" are whole kbps: each floor loses less     *)
(* than 1 kbps, so "within rounding" is "less than 2 kbps away".  The sum  *)
(* and 8N/D are compared after multiplying both by D / 8.                  *)
SumWithinRounding(alloc, bytes, seconds) ==
    Abs(125 * (alloc.v_kbps + alloc.a_kbps) * seconds - bytes) < 250 * seconds

(* neither bitrate floor applies: 8N/D is at least 50_000 + 96_000 *)
AboveFloors(bytes, seconds) == 8 * bytes >= (MinVideoBps + MinAudioBps) * seconds

(* C17 as stated: for every size-targeted request with target N bytes and  *)
(* probed duration D > 0, video bitrate plus audio bitrate is within       *)
(* rounding of 8N/D.                                                       *)
C17_SumIsTargetRate ==
    SizeTargeted =>
        SumWithinRounding(recipeOut.alloc, recipeReq.bytes, recipeReq.duration)

(* C17 amended: that holds when 8N/D is at least 146_000 bit/s; below it   *)
(* the floors decide: video 50 kbps, audio 96 kbps, whatever N and D are.  *)
C17_SumIsTargetRateAboveFloors ==
    SizeTargeted =>
        IF AboveFloors(recipeReq.bytes, recipeReq.duration)
        THEN SumWithinRounding(recipeOut.alloc, recipeReq.bytes, recipeReq.duration)
        ELSE /\ recipeOut.alloc.v_kbps * 1000 = MinVideoBps
             /\ recipeOut.alloc.a_kbps * 1000 = MinAudioBps

C17_Witness ==
    /\ SizeTargeted /\ recipeReq.two_pass
    /\ AboveFloors(recipeReq.bytes, recipeReq.duration)
    /\ recipeOut.alloc.a_kbps * 1000 > MinAudioBps
    /\ recipeOut.alloc.a_kbps * 1000 < MaxAudioBps

BitrateTargeted == recipeReq.op = "compress_bitrate" /\ recipeOut.tag = "ok"

(* clamp(0.08 * T, 96_000, 160_000) in whole kbps *)
AudioShareKbps(t) == Clamp(2 * t, MinAudioBps * 25, MaxAudioBps * 25) \div 25000

(* C18 as stated: for direct bitrate targeting with target T the audio     *)
(* bitrate is clamp(0.08*T, 96_000, 160_000) and is taken out of the       *)
(* target: the video bitrate is max(T - audio_bps, 50_000).                *)
C18_AudioShareTakenOutOfTarget ==
    BitrateTargeted =>
        LET t == recipeReq.bps
            audio25 == Clamp(2 * t, MinAudioBps * 25, MaxAudioBps * 25)
        IN  /\ recipeOut.alloc.a_kbps = AudioShareKbps(t)
            /\ recipeOut.alloc.v_kbps = Max(25 * t - audio25, MinVideoBps * 25) \div 25000

(* C18 amended: the audio bitrate is clamp(0.08*T, 96_000, 160_000), but   *)
(* the video bitrate is the whole target, max(T, 50_000) in whole kbps:    *)
(* the audio share comes on top of the target.                             *)
C18_AudioShareOnTopOfTarget ==
    BitrateTargeted =>
        LET t == recipeReq.bps IN
        /\ recipeOut.alloc.a_kbps = AudioShareKbps(t)
        /\ recipeOut.alloc.v_kbps = Max(t \div 1000, MinVideoBps \div 1000)
        /\ \A k \in DOMAIN recipeOut.steps :
              Kbps(recipeOut.alloc.v_kbps) \in Range(recipeOut.steps[k].args)

C18_Witness ==
    /\ BitrateTargeted /\ ~recipeReq.two_pass
    /\ recipeReq.bps > MinVideoBps + MaxAudioBps
    /\ recipeOut.alloc.a_kbps * 1000 > MinAudioBps
    /\ recipeOut.alloc.a_kbps * 1000 < MaxAudioBps

(* C19: for every size-targeted request, any N >= 0 and any D > 0, the     *)
(* audio bitrate lies in [96_000, 160_000] bits per second.                *)
C19_AudioBitrateClamped ==
    SizeTargeted =>
        /\ recipeOut.alloc.a_kbps * 1000 >= MinAudioBps
        /\ recipeOut.alloc.a_kbps * 1000 <= MaxAudioBps
        /\ Kbps(recipeOut.alloc.a_kbps) \in Range(Last(recipeOut.steps).args)

C19_Witness ==
    /\ SizeTargeted /\ recipeReq.bytes = 0
    /\ recipeOut.alloc.a_kbps * 1000 = MinAudioBps

(* the value that follows a flag in an argument vector, "" without it *)
ArgAfter(step, flag) ==
    LET at == {i \in 1..(Len(step.args) - 1) : step.args[i] = flag}
    IN  IF at = {} THEN "" ELSE step.args[(CHOOSE i \in at : TRUE) + 1]

(* what an invocation does with a stream: "-c copy" covers both streams,   *)
(* "-c:v" / "-c:a" one of them; with neither the encoder transcodes        *)
CopiesVideo(step) == ArgAfter(step, "-c") = "copy" \/ ArgAfter(step, "-c:v") = "copy"
CopiesAudio(step) == ArgAfter(step, "-c") = "copy" \/ ArgAfter(step, "-c:a") = "copy"

(* the source file of a request whose recipe selects codecs by container *)
SourceOf(req) ==
    CASE req.op \in {"split_parts", "split_every"} -> req.input
      [] req.op \in {"crossfade", "compare"} -> req.video1
      [] OTHER -> InputPath

(* C20: when the compatibility table says the output container cannot      *)
(* carry a stream of the input (webm or mkv into mp4, ...), every          *)
(* invocation emitted for that pair transcodes the stream, never copies it.*)
C20_IncompatibleStreamsTranscoded ==
    recipeOut.tag = "ok" =>
        LET in_ext == ExtOf(SourceOf(recipeReq)) IN
        \A k \in DOMAIN recipeOut.steps :
            /\ get_video_codec(in_ext, "mp4") # "copy" => ~CopiesVideo(recipeOut.steps[k])
            /\ get_audio_codec(in_ext, "mp4") # "copy" => ~CopiesAudio(recipeOut.steps[k])

(* C21: every encoder invocation the compiler emits has the overwrite      *)
(* flag, -y or -n, as the first element of its argument vector.            *)
C21_OverwriteFlagFirst ==
    \A k \in DOMAIN recipeOut.steps :
        recipeOut.steps[k].program = "ffmpeg" =>
            /\ Len(recipeOut.steps[k].args) > 0
            /\ recipeOut.steps[k].args[1] \in {"-y", "-n"}

(* C25: for every interval Duration::parse accepts, 0 included, and every  *)
(* probed duration, compiling a split-every-interval request and an        *)
(* extract-frames request terminates with a finite invocation sequence.    *)
C25_LoopRecipesTerminate ==
    <>(IsLoopRecipe(recipeReq) => recipeOut.tag \in {"ok", "err"})

(* C26: whenever run has returned for a live invocation, with success or   *)
(* with any error, the process it spawned has terminated and was waited    *)
(* for: no child outlives the run call that spawned it.                    *)
C26_NoChildOutlivesRun ==
    \A i \in DOMAIN child :
        (spawns[i] > 0 /\ runResult[i] \in {"ok", "err"}) => child[i] = "exited"

(* the output path the user's request names (default_out of the handler) *)
RequestedOutput(req) ==
    CASE req.op = "gif"  -> "in_gif.gif"
      [] req.op = "fade" -> "in_faded.mp4"
      [] OTHER -> ""

(* C27: when overwrite is not requested, no compiled invocation carries    *)
(* the force-overwrite flag -y for the output path of the request.         *)
C27_NoForcedOverwriteUnlessRequested ==
    ~config.overwrite =>
        \A i \in DOMAIN steps :
            OutputOf(steps[i]) = RequestedOutput(request)
                => "-y" \notin {steps[i].args[k] : k \in DOMAIN steps[i].args}

(* C28: handling an operation in dry-run mode leaves the filesystem        *)
(* unchanged: no directory and no file is created or modified.             *)
C28_DryRunLeavesFilesystemUnchanged ==
    config.dry_run => files = {}

----------------------------------------------------------------------------
(* Properties of the value parsers (SpecValues) *)

(* a zero-padded HH:MM:SS: three groups, two digits for the minutes and    *)
(* the seconds, both below 60, at least two digits for the hours           *)
WellFormedClock(text) ==
    /\ Len(text) = 3
    /\ Len(text[1]) >= 2
    /\ Len(text[2]) = 2 /\ parse_u32(text[2]) < 60
    /\ Len(text[3]) = 2 /\ parse_u32(text[3]) < 60

(* the seconds a clock text denotes *)
ClockSeconds(text) ==
    parse_u32(text[1]) * 3600 + parse_u32(text[2]) * 60 + parse_u32(text[3])

(* C23: for every text Time::parse accepts, the text rendered by to_ffmpeg *)
(* is a well-formed zero-padded HH:MM:SS that denotes to_seconds seconds   *)
(* and that Time::parse accepts again with the same to_seconds value.      *)
C23_TimeRoundTrips ==
    valueOut.stage = "reparsed" =>
        /\ WellFormedClock(valueOut.rendered)
        /\ ClockSeconds(valueOut.rendered) = valueOut.seconds
        /\ valueOut.again # None
        /\ to_seconds(valueOut.again[1]) = valueOut.seconds

(* the text is a number below zero *)
NegativeText(t) == t.shape = "number" /\ parse_f64(t).n < 0

(* a WatermarkSize inside its domain: a share between 0 and 1, or pixel    *)
(* dimensions above zero                                                   *)
ValidWatermarkSize(v) ==
    IF v.variant = "Percentage"
    THEN 0 <= v.value.n /\ v.value.n <= v.value.d
    ELSE v.width > 0 /\ (v.height # None => v.height[1] > 0)

(* the pixel width is the number that was written, not a rounded one *)
WidthAsWritten(t, v) ==
    (t.shape = "number" /\ v.variant = "Pixels")
        => v.width * parse_f64(t).d = parse_f64(t).n

(* C24: a value parser returns a value inside its domain or fails; a       *)
(* negative, zero-sized or out-of-range text is a parse failure, never a   *)
(* value that was defaulted, truncated or clamped into the domain.         *)
C24_ParsedValueIsWhatWasWritten ==
    (valueOut.stage = "parsed" /\ valueOut.value # None) =>
        CASE valueReq.kind = "watermark_size" ->
                /\ ~NegativeText(valueReq.text)
                /\ ValidWatermarkSize(valueOut.value[1])
                /\ WidthAsWritten(valueReq.text, valueOut.value[1])
          [] valueReq.kind = "blur_region" ->
                /\ Len(valueReq.text) = 4
                /\ valueOut.value[1].width > 0 /\ valueOut.value[1].height > 0
          [] OTHER -> Len(valueReq.text) <= TimeGroups

----------------------------------------------------------------------------
(* Properties of batch processing (SpecBatch) *)

(* the files of the attempts made so far, in the order they were made *)
AttemptedFiles == [k \in 1..Len(attempted) |-> attempted[k].file]

(* C30: every file the pattern matches is attempted exactly once, in       *)
(* order; a file that fails neither stops nor skips the files after it,    *)
(* and the batch as a whole returns success.                               *)
C30_EveryFileAttemptedOnce ==
    /\ batchPc = "loop" =>
            AttemptedFiles = SubSeq(batchFiles, 1, batchIdx - 1)
    /\ (batchPc = "done" /\ batchFiles # <<>>) =>
            /\ AttemptedFiles = MatchedFiles(globbed)
            /\ successful + failed = Len(batchFiles)
            /\ batchResult = "ok"

C30_Witness ==
    /\ batchPc = "done"
    /\ Len(attempted) >= 2
    /\ attempted[1].result = "err"
    /\ \E k \in DOMAIN attempted : k > 1 /\ attempted[k].result = "ok"
    /\ Len(globbed) > Len(batchFiles)

====
